---- MODULE Spec2Model ----
(***************************************************************************)
(* Model of the sync orchestration engine of protondrive-sync:             *)
(*   SyncEngine      (src/src/sync_engine.py)                              *)
(*   RcloneManager   (src/protondrive_sync/rclone_manager.py)              *)
(*   ConfigManager   (src/protondrive_sync/config_manager.py)              *)
(* Threads: the Qt main thread (all GUI/tray calls), the scheduler         *)
(* thread(s) of start_auto_sync, one worker thread per accepted sync_now.  *)
(* The external rclone processes are separate OS processes.                *)
(* An action is one access of shared state (the engine's fields,           *)
(* RcloneManager.process, a process's status) together with the steps      *)
(* local to the thread that follow it.                                     *)
(***************************************************************************)
EXTENDS Integers, Sequences, FiniteSets, TLC

\* ---- bounds of the model ----
\* worker threads alive at once
MaxWorkers == 2
\* rclone processes tracked at once
MaxProcs == 2
\* scheduler threads alive at once
MaxSched == 1
\* sync_now calls accepted in a run
MaxAttempts == 2
\* cancel_sync calls in a run that find a sync in progress
MaxCancels == 1
\* scheduler threads that may still be alive when start_auto_sync is called again
MaxRestarts == 1
\* folders in the included-folder list, and in the excluded-folder list
MaxFolders == 3

\* ---- program constants ----
LargeSyncThresholdMb == 1000
\* bytes in a MB, as estimate_sync_size computes size_mb
MiB == 1024 * 1024
\* Byte counts the size query may report: below the threshold (500 MB), at it,
\* and one byte above it.
Sizes == {500 * MiB, LargeSyncThresholdMb * MiB, LargeSyncThresholdMb * MiB + 1}
\* (False, {}): what estimate_sync_size returns for every failure
NoSize == [success |-> FALSE, bytes |-> 0]

\* the values of "sync_mode" (config_manager.py line 25)
SyncModes == {"full", "selective_include", "selective_exclude"}
\* folder paths the lists may hold
Folders == {"Photos", "Docs"}
\* the lists of at most MaxFolders folders: any order, repetitions included
FolderLists == UNION {[1..n -> Folders] : n \in 0..MaxFolders}
\* "bandwidth_limit_kbps": 0 (the default, no limit) and a limit in KB/s
BandwidthLimits == {0, 500}

\* "local_folder" as the setup wizard stores it
LocalFolder == "/home/user/ProtonDrive"
\* the locals of _perform_sync before lines 140-151 have run
NoLocals == [source |-> "", destination |-> "", filters |-> <<>>, bandwidth_limit |-> 0]

UI == 0
Workers == 1..MaxWorkers
\* the threads that can call cancel_sync: the main thread and the workers
Threads == 0..MaxWorkers
Procs == 1..MaxProcs
Scheds == 1..MaxSched
\* every scheduler thread: those of Scheds, and those started while an older
\* one is still alive
AllScheds == 1..(MaxSched + MaxRestarts)
\* the thread identity of scheduler thread s, as a caller
SchedId(s) == MaxWorkers + s
NoProc == 0
NoThread == 0

VARIABLES
    sync_in_progress,   \* SyncEngine.sync_in_progress
    sync_paused,        \* SyncEngine.sync_paused
    first_sync_done,    \* SyncEngine.first_sync_done
    last_sync_time,     \* SyncEngine.last_sync_time (0 = None, else a logical timestamp)
    is_running,         \* SyncEngine.is_running
    stop_event,         \* SyncEngine.stop_event (set / clear)
    auto_sync_thread,   \* SyncEngine.auto_sync_thread (0 = None)
    sched,              \* scheduler threads: position in _auto_sync_loop
    config,             \* the ConfigManager fields the engine reads
    process,            \* RcloneManager.process (0 = None)
    procs,              \* the external processes spawned by Popen
    pc,                 \* worker threads: position in _perform_sync / RcloneManager.sync
    log,                \* per attempt, in order: the branch taken at line 154, executor
                        \* invocations, observer events and what the observer did
    stream,             \* worker's bound stdout reader (process it reads lines from)
    target,             \* worker's process being waited on in process.wait()
    res,                \* worker's local (success) of the last rclone.sync call
    dry_run,            \* worker's dry_run argument of the current rclone.sync call
    size_info,          \* worker's local (success, size_info) of estimate_sync_size
    locals,             \* worker's locals source, destination, filters, bandwidth_limit
    cmds,               \* per attempt, in order: the command lines handed to rclone
    cancel,             \* per thread: position in cancel_sync, and the process it waits for
    joining,            \* main thread is blocked in auto_sync_thread.join(timeout=5)
    ret,                \* the call that returned in the last step, and what it returned
    attempts,           \* number of accepted sync_now calls (logical clock)
    blocking,           \* the _perform_sync the main thread runs inside sync_now (0 = none)
    cancels             \* number of cancel_sync calls that found a sync in progress

engineVars == <<sync_in_progress, sync_paused, first_sync_done, last_sync_time>>
schedVars == <<is_running, stop_event, auto_sync_thread, sched, joining>>
procVars == <<process, procs>>
workerVars == <<pc, log, stream, target, res, dry_run, size_info, locals, cmds>>
vars == <<sync_in_progress, sync_paused, first_sync_done, last_sync_time,
          is_running, stop_event, auto_sync_thread, sched, joining, config,
          process, procs, pc, log, stream, target, res, dry_run, size_info,
          locals, cmds, cancel, ret, attempts, blocking, cancels>>
varsButRet == <<engineVars, schedVars, config, procVars, workerVars, cancel,
                attempts, blocking, cancels>>

\* ---- external processes ----
FreeProc == [st |-> "free", kind |-> "none", owner |-> 0]
\* Popen.poll() is not None
Exited(p) == procs[p].st \in {"exit0", "exitN", "exitSig"}
Running(p) == procs[p].st \in {"run", "term"}
AnyProcessRunning == \E p \in Procs : Running(p)

Min(S) == CHOOSE x \in S : \A y \in S : x <= y

\* A process record is dropped once it has exited, the rclone.sync call that
\* started it has returned (owner 0) and nothing refers to it.
Release(ps, h, sm, tg, cn) ==
    [p \in Procs |->
        IF /\ ps[p].st \in {"exit0", "exitN", "exitSig"}
           /\ ps[p].owner = 0
           /\ h # p
           /\ \A w \in Workers : sm[w] # p /\ tg[w] # p
           /\ \A t \in Threads : cn[t].target # p
        THEN FreeProc ELSE ps[p]]

\* The rclone.sync call of worker w returns: the process it started, if it has
\* not been waited for, is nobody's any more.
Disown(ps, w) ==
    [p \in Procs |-> IF ps[p].owner = w THEN [ps[p] EXCEPT !.owner = 0] ELSE ps[p]]

\* ---- cancel bookkeeping ----
\* real: the worker whose running real transfer self.process held when this
\* cancel_sync call was made (0: none); kept for the duration of the call.
NoCancel == [pc |-> "none", target |-> 0, real |-> 0]

\* ---- return values ----
\* ret labels the step just taken when a call returned in it: an accepted
\* sync_now, or a cancel_sync that found a sync in progress.  A call refused
\* at once (sync_now, start_auto_sync, cancel_sync returning False from their
\* first test) leaves no label.
NoRet == [op |-> "none", who |-> 0, res |-> "none"]
Returns(op, who, r) == [op |-> op, who |-> who, res |-> r]

\* ---- observer log ----
Record(w, es) == [log EXCEPT ![w] = @ \o es]
Has(w, e) == \E i \in 1..Len(log[w]) : log[w][i] = e
Calls(w) == SelectSeq(log[w], LAMBDA e : e \in {"dry", "real"})

Init ==
    /\ sync_in_progress = FALSE
    /\ sync_paused = FALSE
    /\ first_sync_done = FALSE
    /\ last_sync_time = 0
    /\ is_running = FALSE
    /\ stop_event = FALSE
    /\ auto_sync_thread = NoThread
    /\ sched = [s \in AllScheds |-> "none"]
    /\ config \in [rclone_remote : {"", "proton"}, local_folder : {LocalFolder}, dry_run_first_sync : BOOLEAN,
                   confirm_large_sync : BOOLEAN,
                   sync_mode : {"full"}, included_folders : {<<>>},
                   excluded_folders : {<<>>}, bandwidth_limit_kbps : {0}]
    /\ process = NoProc
    /\ procs = [p \in Procs |-> FreeProc]
    /\ pc = [w \in Workers |-> "idle"]
    /\ log = [w \in Workers |-> <<>>]
    /\ stream = [w \in Workers |-> NoProc]
    /\ target = [w \in Workers |-> NoProc]
    /\ res = [w \in Workers |-> FALSE]
    /\ dry_run = [w \in Workers |-> FALSE]
    /\ size_info = [w \in Workers |-> NoSize]
    /\ locals = [w \in Workers |-> NoLocals]
    /\ cmds = [w \in Workers |-> <<>>]
    /\ cancel = [t \in Threads |-> NoCancel]
    /\ joining = FALSE
    /\ ret = NoRet
    /\ attempts = 0
    /\ blocking = 0
    /\ cancels = 0


\* ---- ConfigManager.is_configured (rclone_remote and local_folder are set) ----
is_configured == config.rclone_remote # "" /\ config.local_folder # ""

\* the main thread is in its event loop, free to run the next GUI handler
UIIdle == cancel[UI].pc = "none" /\ ~joining /\ blocking = 0

\* ---- SyncEngine.sync_now (lines 109-126) ----
\* (variant: the test of line 109 is missing)
sync_now_accepts_unguarded == is_configured

\* (variant: the test of line 113 is missing)
sync_now_accepts_unconfigured == ~sync_in_progress

\* TRUE iff the call passes both refusals and starts a worker thread.
sync_now_accepts == ~sync_in_progress /\ is_configured

FreeWorkers == {w \in Workers : pc[w] = "idle"}

\* One sync_now call by thread `who`.  Accepted:
\* threading.Thread(target=self._perform_sync).start(); return True.
\* Refused: return False, nothing else.
sync_now(who) ==
    IF sync_now_accepts
    THEN /\ attempts < MaxAttempts
         /\ FreeWorkers # {}
         /\ pc' = [pc EXCEPT ![Min(FreeWorkers)] = "start"]
         /\ attempts' = attempts + 1
         /\ ret' = Returns("sync_now", who, "true")
         /\ UNCHANGED blocking
    ELSE /\ ret' = NoRet
         /\ UNCHANGED <<pc, attempts, blocking>>

\* sync_now called from the main thread (MainWindow.manual_sync, SystemTray.sync_now)
ui_sync_now ==
    /\ UIIdle
    /\ sync_now(UI)
    /\ UNCHANGED <<engineVars, schedVars, config, procVars, log, stream, target,
                   res, dry_run, locals, cmds, size_info, cancel, cancels>>

\* sync_now(blocking=True) called from the main thread (lines 109-119): the
\* same two tests, then self._perform_sync() in the caller's thread; the call
\* returns when _perform_sync has ended.  Refused: return False, nothing else.
ui_sync_now_blocking ==
    /\ UIIdle
    /\ IF sync_now_accepts
       THEN /\ attempts < MaxAttempts
            /\ FreeWorkers # {}
            /\ pc' = [pc EXCEPT ![Min(FreeWorkers)] = "start"]
            /\ attempts' = attempts + 1
            /\ blocking' = Min(FreeWorkers)
       ELSE UNCHANGED <<pc, attempts, blocking>>
    /\ ret' = NoRet
    /\ UNCHANGED <<engineVars, schedVars, config, procVars, log, stream, target,
                   res, dry_run, locals, cmds, size_info, cancel, cancels>>

\* (variant: the test of line 60 is missing)
start_auto_sync_accepts_unconfigured == ~is_running

\* lines 56-62: TRUE iff the call passes both refusals (already running, not
\* configured); a refused call returns False and does nothing else.
start_auto_sync_accepts == ~is_running /\ is_configured

\* ---- SyncEngine.start_auto_sync (lines 56-74), called from the main thread ----
\* (main.py, SystemTray.start_sync, MainWindow.show_settings).  S: the threads
\* the new scheduler thread is taken from.
start_auto_sync(S) ==
    /\ UIIdle
    /\ IF ~start_auto_sync_accepts
       THEN /\ ret' = NoRet
            /\ UNCHANGED schedVars
       ELSE /\ \E s \in S : sched[s] = "none"
            /\ LET s == Min({x \in S : sched[x] = "none"})
               IN /\ is_running' = TRUE
                  /\ stop_event' = FALSE
                  /\ auto_sync_thread' = s
                  /\ sched' = [sched EXCEPT ![s] = "loop"]
            /\ ret' = Returns("start_auto_sync", UI, "true")
            /\ UNCHANGED joining
    /\ UNCHANGED <<engineVars, config, procVars, workerVars, cancel, attempts, blocking, cancels>>

\* (variant: stop_auto_sync also terminates the transfer of a sync in progress)
stop_auto_sync_terminates ==
    /\ UIIdle
    /\ IF ~is_running
       THEN UNCHANGED <<schedVars, procs>>
       ELSE /\ is_running' = FALSE
            /\ stop_event' = TRUE
            /\ joining' = (auto_sync_thread # NoThread /\ sched[auto_sync_thread] # "none")
            /\ procs' = IF process # NoProc /\ procs[process].st = "run"
                        THEN [procs EXCEPT ![process].st = "term"] ELSE procs
            /\ UNCHANGED <<auto_sync_thread, sched>>
    /\ ret' = NoRet
    /\ UNCHANGED <<engineVars, config, process, workerVars, cancel, attempts, blocking, cancels>>

\* ---- SyncEngine.stop_auto_sync (lines 78-85), called from the main thread ----
\* is_running = False, stop_event.set(), then join(timeout=5) if the thread
\* is alive.
stop_auto_sync ==
    /\ UIIdle
    /\ IF ~is_running
       THEN UNCHANGED schedVars
       ELSE /\ is_running' = FALSE
            /\ stop_event' = TRUE
            /\ joining' = (auto_sync_thread # NoThread /\ sched[auto_sync_thread] # "none")
            /\ UNCHANGED <<auto_sync_thread, sched>>
    /\ ret' = NoRet
    /\ UNCHANGED <<engineVars, config, procVars, workerVars, cancel, attempts, blocking, cancels>>

\* line 85: join(timeout=5) returns: the thread has ended, or 5 s have passed
stop_auto_sync_joined ==
    /\ joining
    /\ joining' = FALSE
    /\ ret' = NoRet
    /\ UNCHANGED <<engineVars, is_running, stop_event, auto_sync_thread, sched, config,
                   procVars, workerVars, cancel, attempts, blocking, cancels>>

\* ---- SyncEngine._auto_sync_loop (lines 91-98) ----
\* (variant: the loop waits for the interval before it calls sync_now)
auto_sync_loop_test_waits_first(s) ==
    /\ sched[s] = "loop"
    /\ sched' = [sched EXCEPT ![s] = IF is_running /\ ~stop_event THEN "wait" ELSE "none"]
    /\ ret' = NoRet
    /\ UNCHANGED <<engineVars, is_running, stop_event, auto_sync_thread, joining, config,
                   procVars, workerVars, cancel, attempts, blocking, cancels>>

\* line 93: while self.is_running and not self.stop_event.is_set()
auto_sync_loop_test(s) ==
    /\ sched[s] = "loop"
    /\ sched' = [sched EXCEPT ![s] = IF is_running /\ ~stop_event THEN "sync_now" ELSE "none"]
    /\ ret' = NoRet
    /\ UNCHANGED <<engineVars, is_running, stop_event, auto_sync_thread, joining, config,
                   procVars, workerVars, cancel, attempts, blocking, cancels>>

\* line 95: self.sync_now()
auto_sync_loop_sync_now(s) ==
    /\ sched[s] = "sync_now"
    /\ sync_now(SchedId(s))
    /\ sched' = [sched EXCEPT ![s] = "wait"]
    /\ UNCHANGED <<engineVars, is_running, stop_event, auto_sync_thread, joining, config,
                   procVars, log, stream, target, res, dry_run, locals, cmds, size_info, cancel, cancels>>

\* line 98: self.stop_event.wait(timeout=interval) returns: the event is set,
\* or the interval has passed
auto_sync_loop_wait(s) ==
    /\ sched[s] = "wait"
    /\ sched' = [sched EXCEPT ![s] = "loop"]
    /\ ret' = NoRet
    /\ UNCHANGED <<engineVars, is_running, stop_event, auto_sync_thread, joining, config,
                   procVars, workerVars, cancel, attempts, blocking, cancels>>

\* a variant of the loops that emits the folders last to first
RECURSIVE folder_filters_reversed(_, _)
folder_filters_reversed(option, folders) ==
    IF folders = <<>> THEN <<>>
    ELSE folder_filters_reversed(option, Tail(folders))
         \o <<"--" \o option \o "=" \o Head(folders) \o "/**",
              "--" \o option \o "=" \o Head(folders)>>

\* ---- ConfigManager.get_sync_filters (lines 195-221) ----
\* the loops of lines 207-209 and 217-219: for each folder, in list order,
\* f"--{option}={folder}/**" and then f"--{option}={folder}"
RECURSIVE folder_filters(_, _)
folder_filters(option, folders) ==
    IF folders = <<>> THEN <<>>
    ELSE <<"--" \o option \o "=" \o Head(folders) \o "/**",
           "--" \o option \o "=" \o Head(folders)>>
         \o folder_filters(option, Tail(folders))

\* a variant in which every mode but selective_include excludes the excluded
\* folders
get_sync_filters_full_excludes(c) ==
    IF c.sync_mode = "selective_include"
    THEN folder_filters("include", c.included_folders)
         \o (IF c.included_folders # <<>> THEN <<"--exclude=*">> ELSE <<>>)
    ELSE folder_filters("exclude", c.excluded_folders)

\* a variant that puts the catch-all exclude before the include rules
get_sync_filters_catch_all_first(c) ==
    IF c.sync_mode = "selective_include"
    THEN (IF c.included_folders # <<>> THEN <<"--exclude=*">> ELSE <<>>)
         \o folder_filters("include", c.included_folders)
    ELSE IF c.sync_mode = "selective_exclude"
    THEN folder_filters("exclude", c.excluded_folders)
    ELSE <<>>

\* a variant that ends the include rules with the catch-all exclude whatever
\* the list holds
get_sync_filters_always_catch_all(c) ==
    IF c.sync_mode = "selective_include"
    THEN folder_filters("include", c.included_folders) \o <<"--exclude=*">>
    ELSE IF c.sync_mode = "selective_exclude"
    THEN folder_filters("exclude", c.excluded_folders)
    ELSE <<>>

\* a variant whose exclude mode leaves out the included folders as well
get_sync_filters_excludes_both(c) ==
    IF c.sync_mode = "selective_include"
    THEN folder_filters("include", c.included_folders)
         \o (IF c.included_folders # <<>> THEN <<"--exclude=*">> ELSE <<>>)
    ELSE IF c.sync_mode = "selective_exclude"
    THEN folder_filters("exclude", c.excluded_folders \o c.included_folders)
    ELSE <<>>

get_sync_filters(c) ==
    IF c.sync_mode = "selective_include"
    THEN folder_filters("include", c.included_folders)
         \o (IF c.included_folders # <<>> THEN <<"--exclude=*">> ELSE <<>>)
    ELSE IF c.sync_mode = "selective_exclude"
    THEN folder_filters("exclude", c.excluded_folders)
    ELSE <<>>

\* ---- RcloneManager.sync: the command line (lines 140-156) ----
\* a variant that passes the bandwidth flag whatever the limit is
rclone_sync_cmd_always_limits(source, destination, dry, filters, bandwidth_limit_kbps) ==
    <<"rclone", "sync", source, destination, "--progress", "--stats", "1s", "-v">>
    \o (IF dry THEN <<"--dry-run">> ELSE <<>>)
    \o (IF filters # <<>> THEN filters ELSE <<>>)
    \o <<"--bwlimit", ToString(bandwidth_limit_kbps) \o "k">>

rclone_sync_cmd(source, destination, dry, filters, bandwidth_limit_kbps) ==
    <<"rclone", "sync", source, destination, "--progress", "--stats", "1s", "-v">>
    \o (IF dry THEN <<"--dry-run">> ELSE <<>>)
    \o (IF filters # <<>> THEN filters ELSE <<>>)
    \o (IF bandwidth_limit_kbps > 0
        THEN <<"--bwlimit", ToString(bandwidth_limit_kbps) \o "k">>
        ELSE <<>>)

\* source and destination as _perform_sync makes them (lines 140-144)
Source == config.rclone_remote \o ":"
Destination == config.local_folder

\* ---- RcloneManager.estimate_sync_size: the command line (lines 358-365) ----
estimate_sync_size_cmd(source, filters) ==
    <<"rclone", "size", source, "--json">>
    \o (IF filters # <<>> THEN filters ELSE <<>>)

\* ---- SyncEngine._perform_sync: the locals read at lines 140-151 ----
\* remote and local_folder, source = f"{remote}:", destination = local_folder,
\* filters = self.config.get_sync_filters(), bandwidth_limit
perform_sync_locals(c) ==
    [source |-> c.rclone_remote \o ":", destination |-> c.local_folder,
     filters |-> get_sync_filters(c), bandwidth_limit |-> c.bandwidth_limit_kbps]

\* (variant: the locals are not kept, every use reads the configuration anew)
Locals_reread(w) == perform_sync_locals(config)

\* the locals of worker w's _perform_sync frame
Locals(w) == locals[w]

\* ---- SyncEngine.sync_now, blocking mode (lines 117-119) ----
\* self._perform_sync() runs in the caller's thread; when it ends, sync_now
\* returns True (r = "true"), or the exception that left _perform_sync leaves
\* sync_now as well (r = "raises").  A _perform_sync run by a thread of its
\* own returns to nobody.
perform_sync_ends(w, r) ==
    IF blocking = w
    THEN /\ ret' = Returns("sync_now", UI, r)
         /\ blocking' = 0
    ELSE /\ ret' = NoRet
         /\ UNCHANGED blocking

\* ---- SyncEngine._perform_sync ----
\* lines 134-137: self.sync_in_progress = True, then on_sync_start(), which
\* returns.
perform_sync_begin(w) ==
    /\ pc[w] = "start"
    /\ sync_in_progress' = TRUE
    /\ pc' = [pc EXCEPT ![w] = "check_first"]
    /\ log' = Record(w, <<"start">>)
    /\ ret' = NoRet
    /\ UNCHANGED <<sync_paused, first_sync_done, last_sync_time, schedVars, config,
                   procVars, stream, target, res, dry_run, locals, cmds, size_info, cancel,
                   attempts, blocking, cancels>>

\* lines 134-137, on_sync_start() raises.  The callback runs before the try
\* block: the thread dies without reaching the except and finally clauses.
perform_sync_begin_raises(w) ==
    /\ pc[w] = "start"
    /\ sync_in_progress' = TRUE
    /\ pc' = [pc EXCEPT ![w] = "idle"]
    /\ perform_sync_ends(w, "raises")
    /\ UNCHANGED <<sync_paused, first_sync_done, last_sync_time, schedVars, config,
                   procVars, log, stream, target, res, dry_run, locals, cmds, size_info, cancel,
                   attempts, cancels>>

\* (variant: line 154 does not read first_sync_done, every attempt runs the
\* safety checks)
perform_sync_check_first_always(w) ==
    /\ pc[w] = "check_first"
    /\ pc' = [pc EXCEPT ![w] = "check_dry_run"]
    /\ log' = Record(w, <<IF first_sync_done THEN "later" ELSE "first">>)
    /\ dry_run' = [dry_run EXCEPT ![w] = FALSE]
    /\ locals' = [locals EXCEPT ![w] = perform_sync_locals(config)]
    /\ UNCHANGED cmds
    /\ ret' = NoRet
    /\ UNCHANGED <<engineVars, schedVars, config, procVars, stream, target, res,
                   size_info, cancel, attempts, blocking, cancels>>

\* line 154: if not self.first_sync_done and not force_sync
\* (force_sync is False in every call).  The branch taken is noted in the log:
\* "first" for the safety checks of a first sync, "later" for none.
perform_sync_check_first(w) ==
    /\ pc[w] = "check_first"
    /\ pc' = [pc EXCEPT ![w] = IF first_sync_done THEN "sync_popen" ELSE "check_dry_run"]
    /\ log' = Record(w, <<IF first_sync_done THEN "later" ELSE "first">>)
    /\ dry_run' = [dry_run EXCEPT ![w] = FALSE]
    /\ locals' = [locals EXCEPT ![w] = perform_sync_locals(config)]
    /\ UNCHANGED cmds
    /\ ret' = NoRet
    /\ UNCHANGED <<engineVars, schedVars, config, procVars, stream, target, res,
                   size_info, cancel, attempts, blocking, cancels>>

\* line 155: if self.config.get("dry_run_first_sync", True)
perform_sync_check_dry_run(w) ==
    /\ pc[w] = "check_dry_run"
    /\ IF config.dry_run_first_sync
       THEN /\ pc' = [pc EXCEPT ![w] = "sync_popen"]
            /\ dry_run' = [dry_run EXCEPT ![w] = TRUE]
       ELSE /\ pc' = [pc EXCEPT ![w] = "estimate"]
            /\ UNCHANGED dry_run
    /\ UNCHANGED <<locals, cmds>>
    /\ ret' = NoRet
    /\ UNCHANGED <<engineVars, schedVars, config, procVars, log, stream, target, res,
                   size_info, cancel, attempts, blocking, cancels>>

\* (variant: the result of the dry-run is not tested)
AfterSync_ignores_dry_run(w, ok) ==
    IF dry_run[w]
    THEN "estimate"
    ELSE IF ok THEN "set_last_sync_time" ELSE "complete"

\* Where _perform_sync continues when rclone.sync returns (ok, message):
\* lines 165 (dry-run) and 207 (real transfer).
AfterSync(w, ok) ==
    IF dry_run[w]
    THEN IF ok THEN "estimate" ELSE "dry_fail"
    ELSE IF ok THEN "set_last_sync_time" ELSE "complete"

\* ---- RcloneManager.sync (lines 140-203) ----
\* "return ok, message" of rclone.sync: the worker's locals are dropped.
rclone_sync_return(w, ok) ==
    /\ pc' = [pc EXCEPT ![w] = AfterSync(w, ok)]
    /\ res' = [res EXCEPT ![w] = ok]
    /\ stream' = [stream EXCEPT ![w] = NoProc]
    /\ target' = [target EXCEPT ![w] = NoProc]

FreeProcs == {p \in Procs : procs[p].st = "free"}

\* lines 157/198 (the call) and 161: self.process = subprocess.Popen(cmd, ...)
\* FileNotFoundError (no rclone executable) is caught at line 196.
rclone_sync_popen(w) ==
    /\ pc[w] = "sync_popen"
    /\ FreeProcs # {}
    /\ log' = Record(w, <<IF dry_run[w] THEN "dry" ELSE "real">>)
    /\ cmds' = [cmds EXCEPT ![w] =
                  Append(@, rclone_sync_cmd(Locals(w).source, Locals(w).destination,
                                            dry_run[w], Locals(w).filters,
                                            IF dry_run[w] THEN 0
                                            ELSE Locals(w).bandwidth_limit))]
    /\ \E found \in BOOLEAN :
        IF found
        THEN /\ process' = Min(FreeProcs)
             /\ pc' = [pc EXCEPT ![w] = "sync_bind"]
             /\ UNCHANGED <<stream, target, res>>
             /\ procs' = Release([procs EXCEPT ![Min(FreeProcs)] =
                                    [st |-> "run",
                                     kind |-> IF dry_run[w] THEN "dry" ELSE "real",
                                     owner |-> w]],
                                 process', stream, target, cancel)
        ELSE /\ rclone_sync_return(w, FALSE)
             /\ UNCHANGED <<process, procs>>
    /\ ret' = NoRet
    /\ UNCHANGED <<engineVars, schedVars, config, dry_run, locals, size_info, cancel,
                   attempts, blocking, cancels>>

\* lines 173-174: self.process.stdout.readline is bound once, from whatever
\* self.process holds now; on None the AttributeError is caught at line 200.
rclone_sync_bind(w) ==
    /\ pc[w] = "sync_bind"
    /\ IF process = NoProc
       THEN /\ rclone_sync_return(w, FALSE)
            /\ procs' = Release(Disown(procs, w), process, stream', target', cancel)
       ELSE /\ stream' = [stream EXCEPT ![w] = process]
            /\ pc' = [pc EXCEPT ![w] = "sync_read"]
            /\ UNCHANGED <<target, res, procs>>
    /\ ret' = NoRet
    /\ UNCHANGED <<engineVars, schedVars, config, process, log, dry_run, locals, cmds, size_info, cancel, attempts, blocking, cancels>>

\* lines 174-180: an output line is read and handed to progress_callback
\* (SyncEngine._handle_progress, lines 231-232), and the observer raises.  The
\* exception is caught at line 200: rclone.sync returns (False, ...) without
\* waiting for the process and without clearing self.process.
rclone_sync_progress_raises(w) ==
    /\ pc[w] = "sync_read"
    /\ rclone_sync_return(w, FALSE)
    /\ procs' = Release(Disown(procs, w), process, stream', target', cancel)
    /\ ret' = NoRet
    /\ UNCHANGED <<engineVars, schedVars, config, process, log, dry_run, locals, cmds, size_info, cancel, attempts, blocking, cancels>>

\* line 174: readline returns '' once the process has closed its stdout
rclone_sync_eof(w) ==
    /\ pc[w] = "sync_read"
    /\ Exited(stream[w])
    /\ pc' = [pc EXCEPT ![w] = "sync_wait"]
    /\ stream' = [stream EXCEPT ![w] = NoProc]
    /\ procs' = Release(procs, process, stream', target, cancel)
    /\ ret' = NoRet
    /\ UNCHANGED <<engineVars, schedVars, config, process, log, target, res, dry_run, locals, cmds, size_info,
                   cancel, attempts, blocking, cancels>>

\* line 183: self.process.wait() is called on whatever self.process holds now
rclone_sync_wait(w) ==
    /\ pc[w] = "sync_wait"
    /\ IF process = NoProc
       THEN /\ rclone_sync_return(w, FALSE)
            /\ procs' = Release(Disown(procs, w), process, stream', target', cancel)
       ELSE /\ target' = [target EXCEPT ![w] = process]
            /\ pc' = [pc EXCEPT ![w] = "sync_waiting"]
            /\ UNCHANGED <<stream, res, procs>>
    /\ ret' = NoRet
    /\ UNCHANGED <<engineVars, schedVars, config, process, log, dry_run, locals, cmds, size_info, cancel, attempts, blocking, cancels>>

\* line 183: wait() returns the exit status of that process
rclone_sync_waited(w) ==
    /\ pc[w] = "sync_waiting"
    /\ Exited(target[w])
    /\ res' = [res EXCEPT ![w] = (procs[target[w]].st = "exit0")]
    /\ target' = [target EXCEPT ![w] = NoProc]
    /\ pc' = [pc EXCEPT ![w] = "sync_clear"]
    /\ procs' = Release(procs, process, stream, target', cancel)
    /\ ret' = NoRet
    /\ UNCHANGED <<engineVars, schedVars, config, process, log, stream, dry_run, locals, cmds, size_info,
                   cancel, attempts, blocking, cancels>>

\* lines 184-194: self.process = None; return (return_code == 0, ...)
rclone_sync_clear(w) ==
    /\ pc[w] = "sync_clear"
    /\ process' = NoProc
    /\ rclone_sync_return(w, res[w])
    /\ procs' = Release(Disown(procs, w), process', stream', target', cancel)
    /\ ret' = NoRet
    /\ UNCHANGED <<engineVars, schedVars, config, log, dry_run, locals, cmds, size_info, cancel,
                   attempts, blocking, cancels>>

\* ---- the external process ----
\* A running process exits by itself with status 0 or not 0; a process that
\* received SIGTERM dies of it.  (It may also stay alive, ignoring SIGTERM.)
process_exit(p) ==
    /\ Running(p)
    /\ \E st \in (IF procs[p].st = "run" THEN {"exit0", "exitN"} ELSE {"exitSig"}) :
        procs' = Release([procs EXCEPT ![p].st = st], process, stream, target, cancel)
    /\ ret' = NoRet
    /\ UNCHANGED <<engineVars, schedVars, config, process, workerVars, cancel, attempts, blocking, cancels>>


\* ---- cancel: SyncEngine.cancel_sync (234-243), RcloneManager.cancel_sync (205-224) ----
\* the worker whose real transfer is running as self.process (0: there is none)
RealTransferInHand ==
    IF process # NoProc /\ procs[process].kind = "real" /\ procs[process].st = "run"
    THEN procs[process].owner ELSE 0

\* (variant: a cancel_sync call made inside the warning callback ends the attempt)
cancel_return_aborts(t, r) ==
    /\ cancel' = [cancel EXCEPT ![t] = NoCancel]
    /\ ret' = Returns("cancel_sync", t, r)
    /\ IF t = UI
       THEN UNCHANGED <<pc, log>>
       ELSE /\ pc' = [pc EXCEPT ![t] = "finally"]
            /\ log' = Record(t, <<"complete_fail">>)

\* rclone.cancel_sync, and with it engine.cancel_sync, returns r to thread t
\* ("exc": an AttributeError leaves it).  A worker that called it from the
\* warning callback (gui.py 905-907) goes on: the callback returns and line
\* 198 is next, or the exception leaves the callback and is handled at
\* sync_engine.py 218-221 with on_sync_complete(False, str(e)).
cancel_return(t, r) ==
    /\ cancel' = [cancel EXCEPT ![t] = NoCancel]
    /\ ret' = Returns("cancel_sync", t, r)
    /\ IF t = UI
       THEN UNCHANGED <<pc, log>>
       ELSE IF r = "exc"
            THEN /\ pc' = [pc EXCEPT ![t] = "finally"]
                 /\ log' = Record(t, <<"warning_raised", "complete_fail">>)
            ELSE /\ pc' = [pc EXCEPT ![t] = "sync_popen"]
                 /\ UNCHANGED log

\* sync_engine.py 240-243, this thread found sync_in_progress true and enters
\* self.rclone.cancel_sync()
engine_cancel_sync(t) ==
    /\ cancels < MaxCancels
    /\ cancels' = cancels + 1
    /\ cancel' = [cancel EXCEPT ![t] = [pc |-> "if_process", target |-> NoProc,
                                        real |-> RealTransferInHand]]
    /\ ret' = NoRet

\* (variant: the test of line 240 is missing)
ui_cancel_sync_unguarded ==
    /\ UIIdle
    /\ engine_cancel_sync(UI)
    /\ UNCHANGED <<engineVars, schedVars, config, procVars, workerVars, attempts, blocking>>

\* MainWindow.cancel_sync (gui.py 798-799) calls sync_engine.cancel_sync();
\* line 240: if not self.sync_in_progress: return False
ui_cancel_sync ==
    /\ UIIdle
    /\ IF ~sync_in_progress
       THEN /\ ret' = NoRet
            /\ UNCHANGED <<cancel, cancels>>
       ELSE engine_cancel_sync(UI)
    /\ UNCHANGED <<engineVars, schedVars, config, procVars, workerVars, attempts, blocking>>

\* rclone_manager.py 211, first operand: if self.process
rclone_cancel_if_process(t) ==
    /\ cancel[t].pc = "if_process"
    /\ IF process = NoProc
       THEN cancel_return(t, "false")
       ELSE /\ cancel' = [cancel EXCEPT ![t].pc = "poll"]
            /\ ret' = NoRet
            /\ UNCHANGED <<pc, log>>
    /\ UNCHANGED <<engineVars, schedVars, config, procVars, stream, target, res,
                   dry_run, locals, cmds, size_info, attempts, blocking, cancels>>

\* rclone_manager.py 211, second operand: self.process.poll() is None.
\* It is outside the try block: on None the AttributeError reaches the caller.
rclone_cancel_poll(t) ==
    /\ cancel[t].pc = "poll"
    /\ IF process = NoProc THEN cancel_return(t, "exc")
       ELSE IF Exited(process) THEN cancel_return(t, "false")
       ELSE /\ cancel' = [cancel EXCEPT ![t].pc = "terminate"]
            /\ ret' = NoRet
            /\ UNCHANGED <<pc, log>>
    /\ UNCHANGED <<engineVars, schedVars, config, procVars, stream, target, res,
                   dry_run, locals, cmds, size_info, attempts, blocking, cancels>>

\* rclone_manager.py 213: self.process.terminate() sends SIGTERM unless the
\* process has exited; on None the AttributeError is caught at line 221.
rclone_cancel_terminate(t) ==
    /\ cancel[t].pc = "terminate"
    /\ IF process = NoProc
       THEN /\ cancel_return(t, "false")
            /\ UNCHANGED procs
       ELSE /\ cancel' = [cancel EXCEPT ![t].pc = "wait"]
            /\ procs' = IF procs[process].st = "run"
                        THEN [procs EXCEPT ![process].st = "term"] ELSE procs
            /\ ret' = NoRet
            /\ UNCHANGED <<pc, log>>
    /\ UNCHANGED <<engineVars, schedVars, config, process, stream, target, res,
                   dry_run, locals, cmds, size_info, attempts, blocking, cancels>>

\* rclone_manager.py 214: self.process.wait(timeout=5) is called
rclone_cancel_wait(t) ==
    /\ cancel[t].pc = "wait"
    /\ IF process = NoProc
       THEN cancel_return(t, "false")
       ELSE /\ cancel' = [cancel EXCEPT ![t].pc = "waiting", ![t].target = process]
            /\ ret' = NoRet
            /\ UNCHANGED <<pc, log>>
    /\ UNCHANGED <<engineVars, schedVars, config, procVars, stream, target, res,
                   dry_run, locals, cmds, size_info, attempts, blocking, cancels>>

\* rclone_manager.py 214-216: the process exited within the grace period
rclone_cancel_waited(t) ==
    /\ cancel[t].pc = "waiting"
    /\ Exited(cancel[t].target)
    /\ cancel_return(t, "true")
    /\ procs' = Release(procs, process, stream, target, cancel')
    /\ UNCHANGED <<engineVars, schedVars, config, process, stream, target, res,
                   dry_run, locals, cmds, size_info, attempts, blocking, cancels>>

\* rclone_manager.py 217: subprocess.TimeoutExpired, the process is still running
rclone_cancel_timeout(t) ==
    /\ cancel[t].pc = "waiting"
    /\ ~Exited(cancel[t].target)
    /\ cancel' = [cancel EXCEPT ![t].pc = "kill", ![t].target = NoProc]
    /\ ret' = NoRet
    /\ UNCHANGED <<engineVars, schedVars, config, procVars, workerVars, attempts, blocking, cancels>>

\* rclone_manager.py 218-220: self.process.kill(); return True.  SIGKILL ends
\* the process.  On None the AttributeError is raised inside the except clause
\* and reaches the caller.
rclone_cancel_kill(t) ==
    /\ cancel[t].pc = "kill"
    /\ IF process = NoProc
       THEN /\ cancel_return(t, "exc")
            /\ UNCHANGED procs
       ELSE /\ cancel_return(t, "true")
            /\ procs' = Release(IF Running(process)
                                THEN [procs EXCEPT ![process].st = "exitSig"]
                                ELSE procs,
                                process, stream, target, cancel')
    /\ UNCHANGED <<engineVars, schedVars, config, process, stream, target, res,
                   dry_run, locals, cmds, size_info, attempts, blocking, cancels>>

\* ---- SyncEngine._perform_sync, continued ----
\* lines 165-170: the dry-run failed: on_sync_complete(False, "Dry-run failed..."),
\* self.sync_in_progress = False, return.  If the observer raises, line 169 is
\* skipped and the handler at 218-221 reports on_sync_complete(False, str(e));
\* the log notes the exception between the two reports ("complete_raised").
perform_sync_dry_failed(w) ==
    /\ pc[w] = "dry_fail"
    /\ \E raises \in BOOLEAN :
        IF raises
        THEN /\ log' = Record(w, <<"complete_fail", "complete_raised", "complete_fail">>)
             /\ UNCHANGED sync_in_progress
        ELSE /\ log' = Record(w, <<"complete_fail">>)
             /\ sync_in_progress' = FALSE
    /\ pc' = [pc EXCEPT ![w] = "finally"]
    /\ ret' = NoRet
    /\ UNCHANGED <<sync_paused, first_sync_done, last_sync_time, schedVars, config,
                   procVars, stream, target, res, dry_run, locals, cmds, size_info, cancel,
                   attempts, blocking, cancels>>

\* lines 173-177: rclone.estimate_sync_size (rclone size --json, run to its end
\* by subprocess.run).  A zero exit status with parsable output gives
\* (True, {bytes, size_mb, ...}); a non-zero status, unparsable output, the
\* 60 s timeout and a missing executable all give (False, {}).
perform_sync_estimate(w) ==
    /\ pc[w] = "estimate"
    /\ log' = Record(w, <<"size">>)
    /\ dry_run' = [dry_run EXCEPT ![w] = FALSE]
    /\ cmds' = [cmds EXCEPT ![w] =
                  Append(@, estimate_sync_size_cmd(Locals(w).source, Locals(w).filters))]
    /\ UNCHANGED locals
    /\ \E info \in {NoSize} \cup [success : {TRUE}, bytes : Sizes] :
        size_info' = [size_info EXCEPT ![w] = info]
    /\ pc' = [pc EXCEPT ![w] = "threshold"]
    /\ ret' = NoRet
    /\ UNCHANGED <<engineVars, schedVars, config, procVars, stream, target, res,
                   cancel, attempts, blocking, cancels>>

\* rclone_manager.py 380 and sync_engine.py 180-183:
\* size_mb = bytes / (1024 * 1024) (a float, exact for these values);
\* size_mb > threshold
SizeMbExceeds(bytes, threshold) == bytes > threshold * MiB

\* (variant: the threshold itself counts as large)
LargeSyncWarns_at_threshold(info) ==
    /\ info.success
    /\ info.bytes >= LargeSyncThresholdMb * MiB
    /\ config.confirm_large_sync

\* lines 179-183: if success: ... if size_mb > threshold and
\* self.config.get("confirm_large_sync", True)
LargeSyncWarns(info) ==
    /\ info.success
    /\ SizeMbExceeds(info.bytes, LargeSyncThresholdMb)
    /\ config.confirm_large_sync

\* (variant: a failed estimate ends the attempt as a failure)
perform_sync_threshold_fatal(w) ==
    /\ pc[w] = "threshold"
    /\ pc' = [pc EXCEPT ![w] = IF ~size_info[w].success THEN "dry_fail"
                                ELSE IF LargeSyncWarns(size_info[w]) THEN "warning"
                                ELSE "sync_popen"]
    /\ size_info' = [size_info EXCEPT ![w] = NoSize]
    /\ ret' = NoRet
    /\ UNCHANGED <<engineVars, schedVars, config, procVars, log, stream, target, res,
                   dry_run, locals, cmds, cancel, attempts, blocking, cancels>>

\* lines 179-183: the test that decides whether the warning is raised
perform_sync_threshold(w) ==
    /\ pc[w] = "threshold"
    /\ pc' = [pc EXCEPT ![w] = IF LargeSyncWarns(size_info[w]) THEN "warning" ELSE "sync_popen"]
    /\ size_info' = [size_info EXCEPT ![w] = NoSize]
    /\ ret' = NoRet
    /\ UNCHANGED <<engineVars, schedVars, config, procVars, log, stream, target, res,
                   dry_run, locals, cmds, cancel, attempts, blocking, cancels>>

\* lines 185-186: on_sync_warning("large_sync", size_info).  The observer
\* (MainWindow.on_sync_warning, gui.py 881-907) returns, raises, or calls
\* sync_engine.cancel_sync() before it returns.  The log notes the event
\* ("warning"), a cancel_sync call made inside it ("cancel") and an exception
\* leaving it ("warning_raised").
perform_sync_warning(w) ==
    /\ pc[w] = "warning"
    /\ \E response \in {"return", "raise", "cancel"} :
        CASE response = "return" ->
                /\ pc' = [pc EXCEPT ![w] = "sync_popen"]
                /\ log' = Record(w, <<"warning">>)
                /\ ret' = NoRet
                /\ UNCHANGED <<cancel, cancels>>
          [] response = "raise" ->
                /\ pc' = [pc EXCEPT ![w] = "finally"]
                /\ log' = Record(w, <<"warning", "warning_raised", "complete_fail">>)
                /\ ret' = NoRet
                /\ UNCHANGED <<cancel, cancels>>
          [] response = "cancel" ->
                /\ log' = Record(w, <<"warning", "cancel">>)
                /\ IF ~sync_in_progress
                   THEN /\ pc' = [pc EXCEPT ![w] = "sync_popen"]
                        /\ ret' = NoRet
                        /\ UNCHANGED <<cancel, cancels>>
                   ELSE /\ pc' = [pc EXCEPT ![w] = "warning_cancel"]
                        /\ engine_cancel_sync(w)
    /\ UNCHANGED <<engineVars, schedVars, config, procVars, stream, target, res,
                   dry_run, locals, cmds, size_info, attempts, blocking>>

\* (variant: the time of the sync is not recorded)
perform_sync_set_last_sync_time_skipped(w) ==
    /\ pc[w] = "set_last_sync_time"
    /\ pc' = [pc EXCEPT ![w] = "set_first_sync_done"]
    /\ ret' = NoRet
    /\ UNCHANGED <<engineVars, schedVars, config, procVars, log, stream, target, res,
                   dry_run, locals, cmds, size_info, cancel, attempts, blocking, cancels>>

\* line 208: self.last_sync_time = datetime.now()
perform_sync_set_last_sync_time(w) ==
    /\ pc[w] = "set_last_sync_time"
    /\ last_sync_time' = attempts
    /\ pc' = [pc EXCEPT ![w] = "set_first_sync_done"]
    /\ ret' = NoRet
    /\ UNCHANGED <<sync_in_progress, sync_paused, first_sync_done, schedVars, config,
                   procVars, log, stream, target, res, dry_run, locals, cmds, size_info, cancel,
                   attempts, blocking, cancels>>

\* line 209: self.first_sync_done = True
perform_sync_set_first_sync_done(w) ==
    /\ pc[w] = "set_first_sync_done"
    /\ first_sync_done' = TRUE
    /\ pc' = [pc EXCEPT ![w] = "complete"]
    /\ ret' = NoRet
    /\ UNCHANGED <<sync_in_progress, sync_paused, last_sync_time, schedVars, config,
                   procVars, log, stream, target, res, dry_run, locals, cmds, size_info, cancel,
                   attempts, blocking, cancels>>

\* (variant: a failed transfer is tried again after it has been reported)
perform_sync_complete_retries(w) ==
    /\ pc[w] = "complete"
    /\ log' = Record(w, <<IF res[w] THEN "complete_ok" ELSE "complete_fail">>)
    /\ pc' = [pc EXCEPT ![w] = IF res[w] THEN "finally" ELSE "sync_popen"]
    /\ ret' = NoRet
    /\ UNCHANGED <<engineVars, schedVars, config, procVars, stream, target, res,
                   dry_run, locals, cmds, size_info, cancel, attempts, blocking, cancels>>

\* (variant: the report is made a second time, by the handler, though the
\* observer returned)
perform_sync_complete_twice(w) ==
    /\ pc[w] = "complete"
    /\ log' = Record(w, <<IF res[w] THEN "complete_ok" ELSE "complete_fail", "complete_fail">>)
    /\ pc' = [pc EXCEPT ![w] = "finally"]
    /\ ret' = NoRet
    /\ UNCHANGED <<engineVars, schedVars, config, procVars, stream, target, res,
                   dry_run, locals, cmds, size_info, cancel, attempts, blocking, cancels>>

\* lines 215-221: on_sync_complete(success, message); if the observer raises,
\* the handler reports on_sync_complete(False, str(e)), and the log notes
\* the exception between the two reports ("complete_raised").
perform_sync_complete(w) ==
    /\ pc[w] = "complete"
    /\ \E raises \in BOOLEAN :
        log' = Record(w, <<IF res[w] THEN "complete_ok" ELSE "complete_fail">>
                         \o (IF raises THEN <<"complete_raised", "complete_fail">> ELSE <<>>))
    /\ pc' = [pc EXCEPT ![w] = "finally"]
    /\ ret' = NoRet
    /\ UNCHANGED <<engineVars, schedVars, config, procVars, stream, target, res,
                   dry_run, locals, cmds, size_info, cancel, attempts, blocking, cancels>>

\* (variant: the thread ends without the finally clause)
perform_sync_finally_keeps_flag(w) ==
    /\ pc[w] = "finally"
    /\ pc' = [pc EXCEPT ![w] = "idle"]
    /\ log' = [log EXCEPT ![w] = <<>>]
    /\ res' = [res EXCEPT ![w] = FALSE]
    /\ dry_run' = [dry_run EXCEPT ![w] = FALSE]
    /\ locals' = [locals EXCEPT ![w] = NoLocals]
    /\ cmds' = [cmds EXCEPT ![w] = <<>>]
    /\ cancel' = [t \in Threads |->
                    IF cancel[t].real = w THEN [cancel[t] EXCEPT !.real = 0] ELSE cancel[t]]
    /\ ret' = NoRet
    /\ UNCHANGED <<engineVars, schedVars, config, procVars, stream, target, size_info,
                   attempts, blocking, cancels>>

\* lines 222-223: finally: self.sync_in_progress = False; the thread ends
perform_sync_finally(w) ==
    /\ pc[w] = "finally"
    /\ sync_in_progress' = FALSE
    /\ pc' = [pc EXCEPT ![w] = "idle"]
    /\ log' = [log EXCEPT ![w] = <<>>]
    /\ res' = [res EXCEPT ![w] = FALSE]
    /\ dry_run' = [dry_run EXCEPT ![w] = FALSE]
    /\ locals' = [locals EXCEPT ![w] = NoLocals]
    /\ cmds' = [cmds EXCEPT ![w] = <<>>]
    /\ cancel' = [t \in Threads |->
                    IF cancel[t].real = w THEN [cancel[t] EXCEPT !.real = 0] ELSE cancel[t]]
    /\ perform_sync_ends(w, "true")
    /\ UNCHANGED <<sync_paused, first_sync_done, last_sync_time, schedVars, config,
                   procVars, stream, target, size_info, attempts, cancels>>

\* ---- SyncEngine.pause_sync, resume_sync (lines 245-269) ----
\* line 251: if self.sync_in_progress and not self.sync_paused
pause_sync_accepts == sync_in_progress /\ ~sync_paused

\* (variant: pausing stops the transfer process)
ui_pause_sync_signals ==
    /\ UIIdle
    /\ IF pause_sync_accepts
       THEN /\ sync_paused' = TRUE
            /\ ret' = Returns("pause_sync", UI, "true")
            /\ procs' = IF process # NoProc /\ procs[process].st = "run"
                        THEN [procs EXCEPT ![process].st = "term"] ELSE procs
       ELSE /\ ret' = NoRet
            /\ UNCHANGED <<sync_paused, procs>>
    /\ UNCHANGED <<sync_in_progress, first_sync_done, last_sync_time, schedVars, config,
                   process, workerVars, cancel, attempts, blocking, cancels>>

\* MainWindow.pause_sync (gui.py 804-806) calls sync_engine.pause_sync():
\* lines 251-257, the flag is set and True returned, or False returned.
ui_pause_sync ==
    /\ UIIdle
    /\ IF pause_sync_accepts
       THEN /\ sync_paused' = TRUE
            /\ ret' = Returns("pause_sync", UI, "true")
       ELSE /\ ret' = NoRet
            /\ UNCHANGED sync_paused
    /\ UNCHANGED <<sync_in_progress, first_sync_done, last_sync_time, schedVars, config,
                   procVars, workerVars, cancel, attempts, blocking, cancels>>

\* MainWindow.resume_sync (gui.py 812-814) calls sync_engine.resume_sync():
\* lines 265-269, the flag is cleared and True returned, or False returned.
ui_resume_sync ==
    /\ UIIdle
    /\ IF sync_paused
       THEN /\ sync_paused' = FALSE
            /\ ret' = Returns("resume_sync", UI, "true")
       ELSE /\ ret' = NoRet
            /\ UNCHANGED sync_paused
    /\ UNCHANGED <<sync_in_progress, first_sync_done, last_sync_time, schedVars, config,
                   procVars, workerVars, cancel, attempts, blocking, cancels>>

\* ---- SyncEngine.get_status (lines 271-284) ----
\* last_sync_time: self.last_sync_time.isoformat() if self.last_sync_time
\* else None
None == "None"
isoformat(t) == <<"iso-8601", t>>
get_status ==
    [is_running |-> is_running,
     sync_in_progress |-> sync_in_progress,
     sync_paused |-> sync_paused,
     last_sync_time |-> IF last_sync_time # 0 THEN isoformat(last_sync_time) ELSE None,
     configured |-> is_configured,
     first_sync_done |-> first_sync_done]

(***************************************************************************)
(* ConfigManager: the folder lists and the filter arguments                *)
(***************************************************************************)
\* list.remove(x): the list without the first occurrence of x
RECURSIVE remove(_, _)
remove(l, x) ==
    IF l = <<>> THEN <<>>
    ELSE IF Head(l) = x THEN Tail(l)
    ELSE <<Head(l)>> \o remove(Tail(l), x)

\* x in l
In(x, l) == \E i \in 1..Len(l) : l[i] = x

\* ---- ConfigManager.set("sync_mode", m) (lines 102-109) ----
set_sync_mode(m) ==
    /\ config' = [config EXCEPT !.sync_mode = m]
    /\ ret' = NoRet
    /\ UNCHANGED <<engineVars, schedVars, procVars, workerVars, cancel, attempts, blocking, cancels>>

\* ---- ConfigManager.add_included_folder (lines 151-160) ----
add_included_folder(folder_path) ==
    /\ Len(config.included_folders) < MaxFolders
    /\ IF ~In(folder_path, config.included_folders)
       THEN config' = [config EXCEPT !.included_folders = Append(@, folder_path)]
       ELSE UNCHANGED config
    /\ ret' = NoRet
    /\ UNCHANGED <<engineVars, schedVars, procVars, workerVars, cancel, attempts, blocking, cancels>>

\* ---- ConfigManager.remove_included_folder (lines 162-171) ----
remove_included_folder(folder_path) ==
    /\ IF In(folder_path, config.included_folders)
       THEN config' = [config EXCEPT !.included_folders = remove(@, folder_path)]
       ELSE UNCHANGED config
    /\ ret' = NoRet
    /\ UNCHANGED <<engineVars, schedVars, procVars, workerVars, cancel, attempts, blocking, cancels>>

\* ---- ConfigManager.add_excluded_folder (lines 173-182) ----
add_excluded_folder(folder_path) ==
    /\ Len(config.excluded_folders) < MaxFolders
    /\ IF ~In(folder_path, config.excluded_folders)
       THEN config' = [config EXCEPT !.excluded_folders = Append(@, folder_path)]
       ELSE UNCHANGED config
    /\ ret' = NoRet
    /\ UNCHANGED <<engineVars, schedVars, procVars, workerVars, cancel, attempts, blocking, cancels>>

\* ---- ConfigManager.remove_excluded_folder (lines 184-193) ----
remove_excluded_folder(folder_path) ==
    /\ IF In(folder_path, config.excluded_folders)
       THEN config' = [config EXCEPT !.excluded_folders = remove(@, folder_path)]
       ELSE UNCHANGED config
    /\ ret' = NoRet
    /\ UNCHANGED <<engineVars, schedVars, procVars, workerVars, cancel, attempts, blocking, cancels>>

\* a call of get_sync_filters: the list is returned, nothing is assigned
call_get_sync_filters ==
    /\ ret' = Returns("get_sync_filters", UI, get_sync_filters(config))
    /\ UNCHANGED <<engineVars, schedVars, config, procVars, workerVars, cancel,
                   attempts, blocking, cancels>>

\* the command line of a sync call with the configured filters
call_rclone_sync_cmd ==
    /\ \E dry \in BOOLEAN, bw \in BandwidthLimits :
         ret' = Returns("sync_cmd", UI,
                        [dry_run |-> dry, bandwidth_limit_kbps |-> bw,
                         cmd |-> rclone_sync_cmd(Source, Destination, dry,
                                                 get_sync_filters(config), bw)])
    /\ UNCHANGED <<engineVars, schedVars, config, procVars, workerVars, cancel,
                   attempts, blocking, cancels>>

\* the steps of the worker threads and of the external processes
WorkerSteps ==
    \/ \E w \in Workers : perform_sync_begin(w)
    \/ \E w \in Workers : perform_sync_check_first(w)
    \/ \E w \in Workers : perform_sync_check_dry_run(w)
    \/ \E w \in Workers : rclone_sync_popen(w)
    \/ \E w \in Workers : rclone_sync_bind(w)
    \/ \E w \in Workers : rclone_sync_progress_raises(w)
    \/ \E w \in Workers : rclone_sync_eof(w)
    \/ \E w \in Workers : rclone_sync_wait(w)
    \/ \E w \in Workers : rclone_sync_waited(w)
    \/ \E w \in Workers : rclone_sync_clear(w)
    \/ \E p \in Procs : process_exit(p)
    \/ \E w \in Workers : perform_sync_dry_failed(w)
    \/ \E w \in Workers : perform_sync_estimate(w)
    \/ \E w \in Workers : perform_sync_threshold(w)
    \/ \E w \in Workers : perform_sync_warning(w)
    \/ \E w \in Workers : perform_sync_set_last_sync_time(w)
    \/ \E w \in Workers : perform_sync_set_first_sync_done(w)
    \/ \E w \in Workers : perform_sync_complete(w)
    \/ \E w \in Workers : perform_sync_finally(w)

\* the steps of the workers and of the processes, an on_sync_start callback
\* that raises included
WorkerNext ==
    \/ WorkerSteps
    \/ \E w \in Workers : perform_sync_begin_raises(w)

\* the steps of cancel_sync calls made by the threads in T
CancelNext(T) ==
    \/ \E t \in T : rclone_cancel_if_process(t)
    \/ \E t \in T : rclone_cancel_poll(t)
    \/ \E t \in T : rclone_cancel_terminate(t)
    \/ \E t \in T : rclone_cancel_wait(t)
    \/ \E t \in T : rclone_cancel_waited(t)
    \/ \E t \in T : rclone_cancel_timeout(t)
    \/ \E t \in T : rclone_cancel_kill(t)

\* Manual operation: the user starts syncs and cancels them from the window.
Next ==
    \/ ui_sync_now
    \/ ui_cancel_sync
    \/ WorkerNext
    \/ CancelNext(Threads)

Spec == Init /\ [][Next]_vars

\* Scheduled operation: the user starts and stops the automatic sync and
\* starts syncs by hand; the scheduler thread starts syncs too.  cancel_sync
\* is called from the warning callback only.
AutoNext ==
    \/ ui_sync_now
    \/ start_auto_sync(Scheds)
    \/ stop_auto_sync
    \/ stop_auto_sync_joined
    \/ \E s \in Scheds : auto_sync_loop_test(s)
    \/ \E s \in Scheds : auto_sync_loop_sync_now(s)
    \/ \E s \in Scheds : auto_sync_loop_wait(s)
    \/ WorkerNext
    \/ CancelNext(Workers)

AutoSpec == Init /\ [][AutoNext]_vars

\* Pausing: the user starts syncs, pauses and resumes them from the window.
\* cancel_sync is called from the warning callback only.
PauseNext ==
    \/ ui_sync_now
    \/ ui_pause_sync
    \/ ui_resume_sync
    \/ WorkerNext
    \/ CancelNext(Workers)

PauseSpec == Init /\ [][PauseNext]_vars

\* The configuration and the command line: the configuration file holds any
\* sync mode, folder lists and bandwidth limit; the lists and the mode are
\* changed, the filter arguments are compiled and the command line is built.
FilterInit ==
    /\ sync_in_progress = FALSE
    /\ sync_paused = FALSE
    /\ first_sync_done = FALSE
    /\ last_sync_time = 0
    /\ is_running = FALSE
    /\ stop_event = FALSE
    /\ auto_sync_thread = NoThread
    /\ sched = [s \in AllScheds |-> "none"]
    /\ config \in [rclone_remote : {"proton"}, local_folder : {LocalFolder},
                   dry_run_first_sync : {TRUE},
                   confirm_large_sync : {TRUE},
                   sync_mode : SyncModes, included_folders : FolderLists,
                   excluded_folders : FolderLists,
                   bandwidth_limit_kbps : BandwidthLimits]
    /\ process = NoProc
    /\ procs = [p \in Procs |-> FreeProc]
    /\ pc = [w \in Workers |-> "idle"]
    /\ log = [w \in Workers |-> <<>>]
    /\ stream = [w \in Workers |-> NoProc]
    /\ target = [w \in Workers |-> NoProc]
    /\ res = [w \in Workers |-> FALSE]
    /\ dry_run = [w \in Workers |-> FALSE]
    /\ size_info = [w \in Workers |-> NoSize]
    /\ locals = [w \in Workers |-> NoLocals]
    /\ cmds = [w \in Workers |-> <<>>]
    /\ cancel = [t \in Threads |-> NoCancel]
    /\ joining = FALSE
    /\ ret = NoRet
    /\ attempts = 0
    /\ blocking = 0
    /\ cancels = 0

FilterNext ==
    \/ \E m \in SyncModes : set_sync_mode(m)
    \/ \E f \in Folders : add_included_folder(f)
    \/ \E f \in Folders : remove_included_folder(f)
    \/ \E f \in Folders : add_excluded_folder(f)
    \/ \E f \in Folders : remove_excluded_folder(f)
    \/ call_get_sync_filters
    \/ call_rclone_sync_cmd

FilterSpec == FilterInit /\ [][FilterNext]_vars

\* The scheduler on its own: the user starts and stops the automatic sync, the
\* scheduler threads run their loops, and the worker threads they start get
\* as far as line 137 (their syncs stay in progress).  A thread that is
\* runnable does run: the loop steps and the first step of a started worker
\* are weakly fair.
SchedNext ==
    \/ start_auto_sync(AllScheds)
    \/ stop_auto_sync
    \/ stop_auto_sync_joined
    \/ \E s \in AllScheds : auto_sync_loop_test(s)
    \/ \E s \in AllScheds : auto_sync_loop_sync_now(s)
    \/ \E s \in AllScheds : auto_sync_loop_wait(s)
    \/ \E w \in Workers : perform_sync_begin(w)
    \/ \E w \in Workers : perform_sync_begin_raises(w)

SchedFairness ==
    /\ \A s \in AllScheds :
         /\ WF_vars(auto_sync_loop_test(s))
         /\ WF_vars(auto_sync_loop_sync_now(s))
         /\ WF_vars(auto_sync_loop_wait(s))
    /\ \A w \in Workers : WF_vars(perform_sync_begin(w))

SchedSpec == Init /\ [][SchedNext]_vars /\ SchedFairness

(***************************************************************************)
(* Properties                                                              *)
(***************************************************************************)
\* the workers that are executing _perform_sync past line 134
Executing == {w \in Workers : pc[w] \notin {"idle", "start"}}
\* positions inside RcloneManager.sync (sync_popen: about to make the call)
SyncPcs == {"sync_popen", "sync_bind", "sync_read", "sync_wait", "sync_waiting",
            "sync_clear"}
LastCall(w) == Calls(w)[Len(Calls(w))]

\* C1: at most one _perform_sync execution, and at most one transfer
\* subprocess, exists at any time.
C1_AtMostOneSync ==
    /\ Cardinality(Executing) <= 1
    /\ Cardinality({p \in Procs : Running(p)}) <= 1

\* C2: while sync_in_progress is true, sync_now is refused (its result is
\* False), and the step of the call changes nothing: no worker is started, no
\* attempt is counted, no call returns True, no event is logged, no field moves.
C2_BusySyncNowRefused ==
    [][sync_in_progress =>
        /\ ~sync_now_accepts
        /\ ui_sync_now => UNCHANGED varsButRet
        /\ \A s \in Scheds :
             auto_sync_loop_sync_now(s) =>
                 UNCHANGED <<engineVars, config, procVars, workerVars, cancel,
                             attempts, blocking, cancels>>
        /\ attempts' = attempts
        /\ \A w \in Workers : pc[w] = "idle" => pc'[w] = "idle"
        /\ ret'.op # "sync_now"]_vars

\* C2 witness: a sync is in progress with a transfer process running, and the
\* main thread is free to call sync_now, which would otherwise be accepted.
C2_Witness ==
    /\ sync_in_progress
    /\ AnyProcessRunning
    /\ UIIdle
    /\ is_configured
    /\ FreeWorkers # {}
    /\ attempts < MaxAttempts

\* C3: once no _perform_sync is executing or about to, sync_in_progress is false.
C3_FlagNeverStuck ==
    (\A w \in Workers : pc[w] = "idle") => ~sync_in_progress

\* C4: a cancel_sync call that found sync_in_progress true returns True, and
\* no transfer process is running when it returns.
C4_CancelStopsTransfer ==
    ret.op = "cancel_sync" => (ret.res = "true" /\ ~AnyProcessRunning)

\* C5: while sync_in_progress is false, cancel_sync is refused and its step
\* changes nothing: no cancellation starts in any thread, no process is
\* signalled, no field moves.
C5_IdleCancelRefused ==
    [][~sync_in_progress =>
        /\ ui_cancel_sync => UNCHANGED varsButRet
        /\ cancels' = cancels
        /\ \A t \in Threads : cancel[t].pc = "none" => cancel'[t].pc = "none"
        /\ \A w \in Workers :
             (pc[w] = "warning" /\ pc'[w] # "warning") =>
                 UNCHANGED <<engineVars, procVars>>]_vars

\* C5 witness: sync_in_progress is false while a transfer process is still
\* running, and the main thread is free to call cancel_sync.
C5_Witness ==
    /\ ~sync_in_progress
    /\ AnyProcessRunning
    /\ UIIdle
    /\ cancels < MaxCancels

\* C6: an attempt whose real transfer was running when cancel_sync was called
\* never reports success.
C6_CancelledNeverSuccess ==
    \A t \in Threads :
        cancel[t].real # 0 => ~Has(cancel[t].real, "complete_ok")

\* C7: whenever a transfer process is running, sync_in_progress is true.
C7_RunningImpliesInProgress ==
    AnyProcessRunning => sync_in_progress

C9_DryRunFailureAborts ==
    [][\A w \in Workers :
        /\ (pc[w] \in SyncPcs /\ dry_run[w] /\ pc'[w] \notin SyncPcs /\ ~res'[w]) =>
             pc'[w] = "dry_fail"
        /\ (pc[w] = "dry_fail" /\ pc'[w] # "dry_fail") =>
             /\ pc'[w] = "finally"
             /\ Calls(w) = <<"dry">>
             /\ ~Has(w, "size")
             /\ log'[w] \in {log[w] \o <<"complete_fail">>,
                             log[w] \o <<"complete_fail", "complete_raised", "complete_fail">>}
             /\ UNCHANGED <<first_sync_done, last_sync_time>>
        /\ (pc[w] = "finally" /\ pc'[w] # "finally") =>
             /\ pc'[w] = "idle"
             /\ ~sync_in_progress'
             /\ UNCHANGED <<first_sync_done, last_sync_time>>]_vars

\* C9 witness: an attempt whose dry-run failed is at its last step, having
\* reported on_sync_complete(False) and nothing else.
C9_Witness ==
    \E w \in Workers :
        /\ pc[w] = "finally"
        /\ log[w] = <<"start", "first", "dry", "complete_fail">>

HasNext(w, e) == \E i \in 1..Len(log'[w]) : log'[w][i] = e

\* C11: in a first-sync attempt the step that tests the estimate goes on to the
\* large_sync warning if and only if the estimate succeeded, its size in MB
\* (bytes / 2^20) is strictly greater than the threshold and
\* confirm_large_sync is on, and otherwise goes to the real transfer with no
\* event; the warning event is emitted from that position and from no other,
\* and never in an attempt that found first_sync_done true.
C11_WarningIffLarge ==
    [][\A w \in Workers :
        /\ (pc[w] = "threshold" /\ pc'[w] # "threshold") =>
             /\ pc'[w] \in {"warning", "sync_popen"}
             /\ pc'[w] = "warning" <=>
                    (/\ size_info[w].success
                     /\ size_info[w].bytes > LargeSyncThresholdMb * MiB
                     /\ config.confirm_large_sync)
             /\ log'[w] = log[w]
        /\ (pc[w] = "warning" /\ pc'[w] # "warning") => HasNext(w, "warning")
        /\ (HasNext(w, "warning") /\ ~Has(w, "warning")) =>
             (pc[w] = "warning" /\ Has(w, "first") /\ ~Has(w, "later"))]_vars

\* C11 witness: an attempt has emitted the large_sync warning.
C11_Witness ==
    \E w \in Workers : Has(w, "warning") /\ Has(w, "size") /\ config.confirm_large_sync

\* C12: a failed size estimate is not fatal.  While the failed result is in
\* hand the attempt has reported neither a warning nor a completion; the test
\* of the result leads straight to the call of the real transfer, emitting
\* nothing; and the next step of the attempt makes that call (dry_run=False).
C12_EstimateFailureNotFatal ==
    /\ [](\A w \in Workers :
            (pc[w] = "threshold" /\ ~size_info[w].success) =>
                /\ log[w][Len(log[w])] = "size"
                /\ ~Has(w, "warning")
                /\ ~Has(w, "complete_fail") /\ ~Has(w, "complete_ok"))
    /\ [][\A w \in Workers :
            /\ (pc[w] = "threshold" /\ ~size_info[w].success /\ pc'[w] # "threshold") =>
                    /\ pc'[w] = "sync_popen"
                    /\ ~dry_run'[w]
                    /\ log'[w] = log[w]
            /\ (pc[w] = "sync_popen" /\ ~dry_run[w] /\ pc'[w] # "sync_popen") =>
                    log'[w] = log[w] \o <<"real">>]_vars

\* a size estimate has failed and its result is about to be tested
C12_Witness ==
    \E w \in Workers :
        /\ pc[w] = "threshold"
        /\ size_info[w] = NoSize
        /\ Has(w, "size")

\* C13: last_sync_time and first_sync_done are written only after a successful
\* real transfer: the attempt that writes them is past its real rclone.sync
\* call, which returned success; and that call returns success only if the
\* process it started has exited with status 0 (it is not running, was not
\* terminated and did not fail).
C13_UpdatedOnlyOnSuccess ==
    \A w \in Workers :
        /\ pc[w] \in {"set_last_sync_time", "set_first_sync_done"} =>
              (~dry_run[w] /\ res[w] /\ LastCall(w) = "real")
        /\ (pc[w] = "sync_clear" /\ ~dry_run[w] /\ res[w]) =>
              \A p \in Procs :
                  procs[p].owner = w => (procs[p].kind = "real" /\ procs[p].st = "exit0")

\* C14: get_status()["last_sync_time"] is None until a real transfer has
\* completed successfully, and it is a timestamp in every state from then on.
\* It stays present once present; it becomes present only in the step of an
\* attempt whose real rclone.sync call returned success; that call returns
\* success only from its line 183; and the exit status read there is the
\* status 0 of a real transfer's process.
C14_LastSyncTimeAfterSuccess ==
    /\ [][get_status.last_sync_time # None => get_status'.last_sync_time # None]_vars
    /\ [][(get_status.last_sync_time = None /\ get_status'.last_sync_time # None) =>
            \E w \in Workers :
                pc[w] = "set_last_sync_time" /\ res[w] /\ ~dry_run[w]]_vars
    /\ [][\A w \in Workers :
            (pc'[w] = "set_last_sync_time" /\ pc[w] # "set_last_sync_time") =>
                (pc[w] = "sync_clear" /\ res[w] /\ ~dry_run[w])]_vars
    /\ [][\A w \in Workers :
            (pc[w] = "sync_waiting" /\ pc'[w] = "sync_clear" /\ ~dry_run[w] /\ res'[w]) =>
                (procs[target[w]].kind = "real" /\ procs[target[w]].st = "exit0")]_vars

\* C15: start_auto_sync called while auto-sync is running or while the
\* configuration is incomplete is refused: no call returns True, no scheduler
\* thread is launched, is_running and every other field keep their values.
\* Any other call returns True, with is_running true and the scheduler thread
\* launched at the top of its loop.
C15_StartAutoSyncRefusals ==
    [][/\ (is_running \/ ~is_configured) =>
            /\ start_auto_sync(AllScheds) => UNCHANGED varsButRet
            /\ ret'.op # "start_auto_sync"
            /\ is_running' = is_running \/ stop_auto_sync
            /\ \A s \in AllScheds : sched[s] = "none" => sched'[s] = "none"
       /\ (start_auto_sync(AllScheds) /\ ~is_running /\ is_configured) =>
            /\ ret' = Returns("start_auto_sync", UI, "true")
            /\ is_running'
            /\ auto_sync_thread' # NoThread
            /\ sched[auto_sync_thread'] = "none"
            /\ sched'[auto_sync_thread'] = "loop"
       /\ ret'.op = "start_auto_sync" => (start_auto_sync(AllScheds) /\ ~is_running /\ is_configured)]_vars

\* C15 witness: auto-sync is running, its scheduler thread waits for the next
\* interval, and the main thread is free to call start_auto_sync again.
C15_Witness ==
    /\ is_running
    /\ is_configured
    /\ UIIdle
    /\ auto_sync_thread # NoThread
    /\ sched[auto_sync_thread] = "wait"

\* C16: sync_now called with an incomplete configuration is refused: no call
\* returns True, no worker thread is started and none runs, no process is
\* spawned, no observer event is emitted, and no field of the engine changes.
C16_UnconfiguredSyncNowRefused ==
    /\ [](~is_configured =>
            /\ \A w \in Workers : pc[w] = "idle" /\ log[w] = <<>>
            /\ \A p \in Procs : procs[p] = FreeProc
            /\ process = NoProc
            /\ attempts = 0
            /\ ~sync_in_progress /\ ~first_sync_done /\ last_sync_time = 0)
    /\ [][~is_configured =>
            /\ ~sync_now_accepts
            /\ ui_sync_now => UNCHANGED varsButRet
            /\ \A s \in Scheds :
                 auto_sync_loop_sync_now(s) =>
                     UNCHANGED <<engineVars, config, procVars, workerVars, cancel,
                                 attempts, blocking, cancels>>
            /\ ret'.op # "sync_now"
            /\ UNCHANGED <<engineVars, procVars, workerVars, attempts, blocking>>]_vars

\* C16 witness: the configuration is incomplete and the main thread is free
\* to call sync_now, with a worker thread and a process slot available.
C16_Witness ==
    /\ ~is_configured
    /\ UIIdle
    /\ ~sync_in_progress
    /\ FreeWorkers # {}
    /\ FreeProcs # {}
    /\ attempts < MaxAttempts

\* C17: once stop_auto_sync has been called while auto-sync was running
\* (is_running is false and the stop event is set), the scheduler thread that
\* was running eventually exits.
C17_StoppedThreadExits ==
    \A s \in AllScheds :
        (~is_running /\ stop_event /\ sched[s] # "none") ~> (sched[s] = "none")

\* C18: a scheduler thread starts at the test of its loop; an iteration calls
\* sync_now and only then waits, so a thread enters its wait only from the
\* sync_now call and the first call comes before any wait.  The call returns
\* at once: accepted, it starts one worker thread; rejected, it changes
\* nothing, and the thread goes on to its wait all the same.  Nothing is
\* queued: a worker thread is started only in the step of a sync_now call that
\* finds sync_in_progress false and the configuration complete.
C18_TickCallsThenWaits ==
    [][/\ \A s \in AllScheds :
            /\ sched'[s] # sched[s] =>
                 \/ sched[s] = "none" /\ sched'[s] = "loop"
                 \/ /\ sched[s] = "loop"
                    /\ sched'[s] = IF is_running /\ ~stop_event THEN "sync_now" ELSE "none"
                 \/ sched[s] = "sync_now" /\ sched'[s] = "wait"
                 \/ sched[s] = "wait" /\ sched'[s] = "loop"
            /\ (sched[s] = "sync_now" /\ sched'[s] = "wait") =>
                 IF sync_now_accepts
                 THEN /\ ret' = Returns("sync_now", SchedId(s), "true")
                      /\ attempts' = attempts + 1
                      /\ \E w \in Workers :
                           /\ pc[w] = "idle" /\ pc'[w] = "start"
                           /\ \A v \in Workers \ {w} : pc'[v] = pc[v]
                 ELSE /\ ret' = NoRet
                      /\ UNCHANGED <<engineVars, is_running, stop_event, auto_sync_thread,
                                     joining, config, procVars, workerVars, cancel,
                                     attempts, blocking, cancels>>
       /\ (attempts' # attempts \/ \E w \in Workers : pc[w] = "idle" /\ pc'[w] # "idle") =>
            /\ sync_now_accepts
            /\ ret'.op = "sync_now"
            /\ ui_sync_now \/ \E s \in AllScheds : auto_sync_loop_sync_now(s)]_vars

\* C18 witness: a scheduler thread is about to call sync_now while a sync is
\* in progress, with a worker thread free: the tick will be rejected.
C18_Witness ==
    \E s \in AllScheds :
        /\ sched[s] = "sync_now"
        /\ sync_in_progress
        /\ is_configured
        /\ FreeWorkers # {}
        /\ attempts < MaxAttempts

\* C19: a failure of rclone ends the attempt with on_sync_complete(False, ...):
\* a rclone.sync call whose process exited with a non-zero status does not
\* return success, and an attempt that reaches its end has reported its
\* completion, as a failure unless its real transfer succeeded.
C19_ToolFailureReported ==
    \A w \in Workers :
        /\ (pc[w] = "sync_clear" /\ res[w]) =>
              \A p \in Procs : procs[p].owner = w => procs[p].st # "exitN"
        /\ pc[w] = "finally" =>
              /\ Has(w, "complete_ok") \/ Has(w, "complete_fail")
              /\ Has(w, "complete_ok") => (res[w] /\ LastCall(w) = "real")

\* C20: a failed attempt is not retried.  Once an attempt has reported
\* on_sync_complete(False, ...) it makes no further rclone call (dry-run, size
\* estimate or transfer): the report takes it to its end, where its thread
\* finishes.  A new attempt is started only by a sync_now call, made by the
\* user or by a scheduler thread, that is accepted.
C20_NoAutomaticRetry ==
    /\ [](\A w \in Workers :
            /\ \A i, j \in 1..Len(log[w]) :
                 (i < j /\ log[w][i] = "complete_fail") =>
                     log[w][j] \notin {"dry", "size", "real"}
            /\ Has(w, "complete_fail") => pc[w] = "finally")
    /\ [][\A w \in Workers :
            /\ pc[w] = "finally" => pc'[w] \in {"finally", "idle"}
            /\ (pc[w] = "idle" /\ pc'[w] # "idle") =>
                 /\ pc'[w] = "start"
                 /\ ret' = Returns("sync_now", ret'.who, "true")
                 /\ ui_sync_now \/ \E s \in AllScheds : auto_sync_loop_sync_now(s)]_vars

\* C20 witness: an attempt whose real transfer failed has reported the failure
C20_Witness ==
    \E w \in Workers :
        /\ pc[w] = "finally"
        /\ Calls(w) # <<>>
        /\ LastCall(w) = "real"
        /\ ~res[w]
        /\ Has(w, "complete_fail")

\* C21: rclone.cancel_sync sends SIGTERM first and SIGKILL only to a process
\* that has not exited within the grace period, and it returns True on both
\* paths: once the call has sent SIGTERM it returns True and nothing else (no
\* False, no exception), and SIGKILL goes to no process that has not been sent
\* SIGTERM.
C21_TerminateThenKill ==
    [][\A t \in Threads :
        /\ (cancel[t].pc \in {"wait", "waiting", "kill"} /\ cancel'[t].pc = "none") =>
              ret' = Returns("cancel_sync", t, "true")
        /\ (cancel[t].pc = "kill" /\ cancel'[t].pc = "none") =>
              (process # NoProc /\ procs[process].st # "run")
        /\ cancel'[t].pc = "kill" => cancel[t].pc \in {"waiting", "kill"}
        /\ cancel'[t].pc \in {"wait", "waiting"} =>
              cancel[t].pc \in {"terminate", "wait", "waiting"}]_vars

\* C22: pause_sync and resume_sync write sync_paused and nothing else: no
\* process is signalled, sync_in_progress, first_sync_done, last_sync_time and
\* the attempts keep their values, and sync_paused changes only in an accepted
\* pause_sync or resume_sync call.  A paused transfer goes on: SIGTERM comes
\* from cancel_sync only, the exit status is read and the completion reported
\* as without the pause.
C22_PauseChangesOnlyFlag ==
    [][/\ (ui_pause_sync \/ ui_resume_sync) =>
            UNCHANGED <<sync_in_progress, first_sync_done, last_sync_time, schedVars,
                        config, procVars, workerVars, cancel, attempts, blocking, cancels>>
       /\ sync_paused' # sync_paused =>
            /\ ret'.op = (IF sync_paused' THEN "pause_sync" ELSE "resume_sync")
            /\ sync_paused' => sync_in_progress
            /\ ui_pause_sync \/ ui_resume_sync
       /\ \A p \in Procs :
            (procs[p].st = "run" /\ procs'[p].st \in {"term", "exitSig"}) =>
                \E t \in Threads : cancel[t].pc \in {"terminate", "kill"}
       /\ sync_paused =>
            \A w \in Workers :
                /\ (pc[w] = "sync_waiting" /\ pc'[w] = "sync_clear") =>
                      res'[w] = (procs[target[w]].st = "exit0")
                /\ (pc[w] = "complete" /\ pc'[w] # "complete") =>
                      /\ pc'[w] = "finally"
                      /\ log'[w][Len(log[w]) + 1] =
                            (IF res[w] THEN "complete_ok" ELSE "complete_fail")]_vars

\* C22 witness: the sync is paused and the real transfer has just ended with
\* status 0
C22_Witness ==
    /\ sync_paused
    /\ \E w \in Workers : pc[w] = "sync_clear" /\ res[w] /\ ~dry_run[w]

\* C23: sync_paused implies sync_in_progress in every state.
C23_PausedImpliesInProgress ==
    sync_paused => sync_in_progress

\* the value the last step returned from get_sync_filters
Compiled == ret.op = "get_sync_filters"

\* C24: in sync mode full the compiled filter list is empty, whatever the
\* included-folder and excluded-folder lists hold.
C24_FullModeNoFilters ==
    (Compiled /\ config.sync_mode = "full") => ret.res = <<>>

C24_Witness ==
    /\ Compiled
    /\ config.sync_mode = "full"
    /\ config.included_folders # <<>>
    /\ config.excluded_folders # <<>>

\* C25: in include mode with a non-empty list f1..fn the compiled list is
\* include fi/** then include fi for i = 1..n in order, then one catch-all
\* exclude * as its last element (2n+1 rules, no exclude before an include);
\* the excluded-folder list has no influence.
C25_IncludeRules ==
    (Compiled /\ config.sync_mode = "selective_include"
              /\ config.included_folders # <<>>) =>
        LET f == config.included_folders
            n == Len(f)
        IN  /\ Len(ret.res) = 2 * n + 1
            /\ \A i \in 1..n : /\ ret.res[2 * i - 1] = "--include=" \o f[i] \o "/**"
                               /\ ret.res[2 * i] = "--include=" \o f[i]
            /\ ret.res[2 * n + 1] = "--exclude=*"
            /\ (f = <<"Photos", "Docs">>) =>
                  ret.res = <<"--include=Photos/**", "--include=Photos",
                              "--include=Docs/**", "--include=Docs", "--exclude=*">>
            /\ \A e \in FolderLists :
                  get_sync_filters([config EXCEPT !.excluded_folders = e]) = ret.res

C25_Witness ==
    /\ Compiled
    /\ config.sync_mode = "selective_include"
    /\ config.included_folders = <<"Photos", "Docs">>
    /\ config.excluded_folders # <<>>

\* C26: in include mode with an empty list the compiled list is empty (no
\* catch-all exclude), and the command line of the transfer is the one of
\* full mode.
C26_EmptyIncludeIsFull ==
    (config.sync_mode = "selective_include" /\ config.included_folders = <<>>) =>
        /\ Compiled => ret.res = <<>>
        /\ ret.op = "sync_cmd" =>
              /\ ret.res.cmd =
                     rclone_sync_cmd(Source, Destination, ret.res.dry_run,
                                     get_sync_filters([config EXCEPT !.sync_mode = "full"]),
                                     ret.res.bandwidth_limit_kbps)
              /\ \A i \in 1..Len(ret.res.cmd) : ret.res.cmd[i] # "--exclude=*"

C26_Witness ==
    /\ ret.op = "sync_cmd"
    /\ config.sync_mode = "selective_include"
    /\ config.included_folders = <<>>
    /\ config.excluded_folders # <<>>

\* C27: in exclude mode with the list f1..fn the compiled list is exclude
\* fi/** then exclude fi for i = 1..n in order, with no catch-all rule (2n
\* rules); the included-folder list has no influence.
C27_ExcludeRules ==
    (Compiled /\ config.sync_mode = "selective_exclude") =>
        LET f == config.excluded_folders
            n == Len(f)
        IN  /\ Len(ret.res) = 2 * n
            /\ \A i \in 1..n : /\ ret.res[2 * i - 1] = "--exclude=" \o f[i] \o "/**"
                               /\ ret.res[2 * i] = "--exclude=" \o f[i]
            /\ (f = <<"Photos">>) => ret.res = <<"--exclude=Photos/**", "--exclude=Photos">>
            /\ \A i \in 1..Len(ret.res) : ret.res[i] # "--exclude=*"
            /\ \A e \in FolderLists :
                  get_sync_filters([config EXCEPT !.included_folders = e]) = ret.res

C27_Witness ==
    /\ Compiled
    /\ config.sync_mode = "selective_exclude"
    /\ config.excluded_folders = <<"Photos">>
    /\ config.included_folders # <<>>

\* C28: the compiler keeps the order and the multiplicity of the folder list:
\* the pair of rules of the folder at position i is at positions 2i-1 and 2i
\* of the output, a folder listed k times yields k pairs, and compiling
\* leaves the configuration as it was.
C28_OrderAndMultiplicity ==
    [][ret'.op = "get_sync_filters" =>
          /\ config' = config
          /\ config.sync_mode \in {"selective_include", "selective_exclude"} =>
                LET inc == config.sync_mode = "selective_include"
                    f == IF inc THEN config.included_folders ELSE config.excluded_folders
                    option == IF inc THEN "--include=" ELSE "--exclude="
                    out == ret'.res
                IN  /\ Len(out) >= 2 * Len(f)
                    /\ \A i \in 1..Len(f) : /\ out[2 * i - 1] = option \o f[i] \o "/**"
                                            /\ out[2 * i] = option \o f[i]
                    /\ \A x \in Folders :
                          Cardinality({i \in 1..Len(f) : f[i] = x})
                            = Cardinality({j \in 1..Len(out) : out[j] = option \o x})]_<<varsButRet, ret.op, ret.who>>

C28_Witness ==
    /\ Compiled
    /\ config.sync_mode = "selective_include"
    /\ config.included_folders = <<"Docs", "Photos", "Docs">>

\* C29: the sync command line is, in this order: rclone, sync, the source,
\* the destination, --progress, --stats 1s, -v, then --dry-run exactly when a
\* dry run is requested, then the filter arguments in the order given, then
\* --bwlimit <N>k exactly when the bandwidth limit N is greater than 0.
C29_CommandLineOrder ==
    ret.op = "sync_cmd" =>
        LET c == ret.res.cmd
            f == get_sync_filters(config)
            d == IF ret.res.dry_run THEN 1 ELSE 0
            n == Len(f)
            N == ret.res.bandwidth_limit_kbps
        IN  /\ Len(c) = 8 + d + n + (IF N > 0 THEN 2 ELSE 0)
            /\ SubSeq(c, 1, 8) = <<"rclone", "sync", Source, Destination,
                                   "--progress", "--stats", "1s", "-v">>
            /\ ret.res.dry_run <=> \E i \in 1..Len(c) : c[i] = "--dry-run"
            /\ ret.res.dry_run => c[9] = "--dry-run"
            /\ SubSeq(c, 9 + d, 8 + d + n) = f
            /\ (N > 0) <=> \E i \in 1..Len(c) : c[i] = "--bwlimit"
            /\ (N = 500) => (c[Len(c) - 1] = "--bwlimit" /\ c[Len(c)] = "500k")

C29_Witness ==
    /\ ret.op = "sync_cmd"
    /\ ret.res.dry_run
    /\ ret.res.bandwidth_limit_kbps = 500
    /\ get_sync_filters(config) # <<>>

\* C30: dry-run and size-estimate calls occur only in attempts that start
\* with first_sync_done false: an attempt makes them only in the branch it
\* takes at line 154 on finding first_sync_done false, an attempt that finds
\* it true makes neither, an attempt that finds it false goes on to the
\* dry-run (when configured) and the size estimate, and first_sync_done is
\* the same at line 154 as it was when the attempt was accepted (it does not
\* change while an accepted attempt has not reached line 154).
C30_PreflightOnlyBeforeFirstSync ==
    [][/\ \A w \in Workers :
            /\ (pc[w] = "check_first" /\ pc'[w] # "check_first") =>
                  IF first_sync_done
                  THEN pc'[w] = "sync_popen" /\ ~dry_run'[w] /\ log'[w] = log[w] \o <<"later">>
                  ELSE pc'[w] = "check_dry_run" /\ log'[w] = log[w] \o <<"first">>
            /\ (pc[w] = "check_dry_run" /\ pc'[w] # "check_dry_run") =>
                  IF config.dry_run_first_sync
                  THEN pc'[w] = "sync_popen" /\ dry_run'[w]
                  ELSE pc'[w] = "estimate"
            /\ (Len(log'[w]) > Len(log[w])
                  /\ \E i \in (Len(log[w]) + 1)..Len(log'[w]) : log'[w][i] \in {"dry", "size"}) =>
                  (Has(w, "first") /\ ~Has(w, "later"))
       /\ first_sync_done' # first_sync_done =>
            \A w \in Workers : pc[w] \notin {"start", "check_first"}]_vars

\* the external process that worker w's running rclone.sync call started, if
\* it died of a signal
KilledDryRun(w) ==
    \E p \in Procs : procs[p].owner = w /\ procs[p].kind = "dry" /\ procs[p].st = "exitSig"

\* C31: when cancel_sync terminates the dry-run process of an attempt, the
\* dry-run call returns failure and the attempt takes the dry-run-failed
\* branch: it makes no size estimate and no real transfer, reports
\* on_sync_complete(False) and leaves first_sync_done as it was.
C31_CancelledDryRunAbortsAttempt ==
    [][\A w \in Workers :
        /\ (pc[w] \in SyncPcs /\ dry_run[w] /\ pc'[w] \notin SyncPcs /\ KilledDryRun(w)) =>
             (pc'[w] = "dry_fail" /\ ~res'[w])
        /\ (pc[w] = "dry_fail" /\ pc'[w] # "dry_fail") =>
             /\ pc'[w] = "finally"
             /\ Calls(w) = <<"dry">>
             /\ ~Has(w, "size")
             /\ log'[w][Len(log[w]) + 1] = "complete_fail"
             /\ UNCHANGED first_sync_done]_vars

\* an observer callback of worker w's attempt has raised
Raised(w) == Has(w, "warning_raised") \/ Has(w, "complete_raised")
\* the positions of the on_sync_complete calls in worker w's log
Completes(w) == {i \in 1..Len(log[w]) : log[w][i] \in {"complete_ok", "complete_fail"}}

\* C33: in every attempt whose observer callbacks do not raise, on_sync_start
\* is the first event and occurs once, progress and warning events are
\* delivered after it and before on_sync_complete, and on_sync_complete is
\* called exactly once, as the last event.
C33_CallbackOrder ==
    \A w \in Workers :
        /\ log[w] # <<>> =>
             (log[w][1] = "start" /\ \A i \in 2..Len(log[w]) : log[w][i] # "start")
        /\ pc[w] \in SyncPcs \cup {"warning", "warning_cancel"} =>
             (log[w] # <<>> /\ Completes(w) = {})
        /\ Has(w, "warning") => \A i \in Completes(w) : \E j \in 1..(i - 1) : log[w][j] = "warning"
        /\ ~Raised(w) =>
             /\ Cardinality(Completes(w)) <= 1
             /\ Completes(w) # {} => (Completes(w) = {Len(log[w])} /\ pc[w] = "finally")
             /\ pc[w] = "finally" => Cardinality(Completes(w)) = 1

C33_Witness ==
    \E w \in Workers :
        /\ pc[w] = "finally"
        /\ log[w] = <<"start", "first", "dry", "size", "warning", "real", "complete_ok">>

\* C36: at most one scheduler loop thread is alive at any time, whatever the
\* sequence of start_auto_sync and stop_auto_sync calls, a start right after a
\* stop and a join that timed out included.
C36_OneSchedulerThread ==
    Cardinality({s \in AllScheds : sched[s] # "none"}) <= 1

\* C37: stop_auto_sync leaves a transfer in flight alone: the call and its
\* join change none of sync_in_progress, sync_paused, first_sync_done and
\* last_sync_time, no worker, no process and no cancellation; a process is
\* signalled only by a cancel_sync call; and after the stop the attempt goes
\* on: its transfer returns the exit status and the attempt reports
\* on_sync_complete with it.
C37_StopLeavesTransferAlone ==
    [][/\ (stop_auto_sync \/ stop_auto_sync_joined) =>
             UNCHANGED <<engineVars, config, procVars, workerVars, cancel, attempts, blocking, cancels>>
       /\ \A p \in Procs :
             (procs[p].st = "run" /\ procs'[p].st \in {"term", "exitSig"}) =>
                 \E t \in Threads : cancel[t].pc \in {"terminate", "kill"}
       /\ (~is_running /\ stop_event) =>
             \A w \in Workers :
                 /\ (pc[w] = "sync_waiting" /\ pc'[w] = "sync_clear") =>
                       res'[w] = (procs[target[w]].st = "exit0")
                 /\ (pc[w] = "complete" /\ pc'[w] # "complete") =>
                       /\ pc'[w] = "finally"
                       /\ log'[w][Len(log[w]) + 1] =
                             (IF res[w] THEN "complete_ok" ELSE "complete_fail")]_vars

\* C37 witness: auto-sync has been stopped while a real transfer is running.
C37_Witness ==
    /\ ~is_running
    /\ stop_event
    /\ ~joining
    /\ sync_in_progress
    /\ \E w \in Workers :
         /\ pc[w] = "sync_read"
         /\ ~dry_run[w]
         /\ procs[stream[w]].st = "run"

\* C35: whenever first_sync_done is true last_sync_time is set, and neither is
\* reset: first_sync_done stays true and last_sync_time stays set.
C35_FirstSyncDoneHasTime ==
    /\ [](first_sync_done => last_sync_time # 0)
    /\ [][/\ first_sync_done => first_sync_done'
          /\ last_sync_time # 0 => last_sync_time' # 0]_vars

\* C35 witness: after a first sync succeeded, a later attempt is transferring.
C35_Witness ==
    /\ first_sync_done
    /\ last_sync_time # 0
    /\ \E w \in Workers : pc[w] = "sync_read" /\ Has(w, "later")

\* C34: when an attempt whose real transfer succeeded is about to call
\* on_sync_complete(True, ...), last_sync_time and first_sync_done have been
\* updated and sync_in_progress is still true: get_status shows a sync in
\* progress and a last sync time, and a sync_now call would be refused.
C34_CompleteBeforeFlagCleared ==
    \A w \in Workers :
        (pc[w] = "complete" /\ res[w]) =>
            /\ first_sync_done
            /\ get_status.last_sync_time # None
            /\ get_status.sync_in_progress
            /\ ~sync_now_accepts

\* Termination: syncs are started by hand, with the dry-run and the
\* large-sync confirmation configured; cancel_sync is called from the warning
\* callback only, and on_sync_start returns.  A thread that can run does run
\* and a running process exits: the steps of the workers, of the processes and
\* of the cancel_sync calls are weakly fair.
LiveInit ==
    /\ Init
    /\ is_configured
    /\ config.dry_run_first_sync
    /\ config.confirm_large_sync

LiveNext ==
    \/ ui_sync_now
    \/ WorkerSteps
    \/ CancelNext(Workers)

LiveSpec == LiveInit /\ [][LiveNext]_vars /\ WF_vars(WorkerSteps \/ CancelNext(Workers))

\* C39: when every process exits and on_sync_start returns, every
\* attempt ends: from a state with sync_in_progress true the engine reaches
\* a state with sync_in_progress false, in which sync_now is accepted again.
C39_AttemptsTerminate ==
    sync_in_progress ~> (~sync_in_progress /\ sync_now_accepts)

\* C39 witness: an attempt has ended and the flag is clear, after a transfer
\* was made
C39_Witness ==
    /\ ~sync_in_progress
    /\ sync_now_accepts
    /\ attempts > 0
    /\ \A w \in Workers : pc[w] = "idle"
    /\ last_sync_time # 0

(***************************************************************************)
(* The settings wizard, run from the main window while the engine works    *)
(* (gui.py, MainWindow.show_settings, lines 820-839)                       *)
(***************************************************************************)
\* remotes the wizard's remote field may name
Remotes == {"proton", "backup"}
\* the folders checked on the selective-sync page
Checked == {<<"Photos">>}
\* the modes chosen on the selective-sync page while attempts run
ChosenModes == {"full", "selective_include"}

\* ---- SelectiveSyncPage.validatePage (gui.py lines 279-327) ----
\* The page stores the mode and the two lists; the include mode with no folder
\* checked is refused (lines 298-305) and stores nothing.
validatePage(mode, checked) ==
    /\ UIIdle
    /\ IF mode = "selective_include" /\ checked = <<>>
       THEN UNCHANGED config
       ELSE config' = [config EXCEPT
                         !.sync_mode = mode,
                         !.included_folders =
                             IF mode = "selective_include" THEN checked ELSE <<>>,
                         !.excluded_folders =
                             IF mode = "selective_exclude" THEN checked ELSE <<>>]
    /\ ret' = NoRet
    /\ UNCHANGED <<engineVars, schedVars, procVars, workerVars, cancel, attempts,
                   blocking, cancels>>

\* ---- EnhancedSetupWizard.accept (gui.py lines 583-598) ----
\* config.update with the fields of the wizard: the remote, the local folder,
\* the two safety options and the bandwidth limit.
wizard_accept(remote, local_folder, dry_run_first, confirm_large, bandwidth_limit) ==
    /\ UIIdle
    /\ config' = [config EXCEPT !.rclone_remote = remote,
                                !.local_folder = local_folder,
                                !.dry_run_first_sync = dry_run_first,
                                !.confirm_large_sync = confirm_large,
                                !.bandwidth_limit_kbps = bandwidth_limit]
    /\ ret' = NoRet
    /\ UNCHANGED <<engineVars, schedVars, procVars, workerVars, cancel, attempts,
                   blocking, cancels>>

\* The configuration is changed while attempts run: the engine is configured
\* with the dry-run on and the large-sync confirmation off, syncs are asked
\* for, no callback raises, and the wizard stores a mode and a remote at any
\* moment.
ConfigInit ==
    /\ Init
    /\ is_configured
    /\ config.dry_run_first_sync
    /\ ~config.confirm_large_sync

ConfigNext ==
    \/ ui_sync_now
    \/ \E w \in Workers : perform_sync_begin(w)
    \/ \E w \in Workers : perform_sync_check_first(w)
    \/ \E w \in Workers : perform_sync_check_dry_run(w)
    \/ \E w \in Workers : rclone_sync_popen(w)
    \/ \E w \in Workers : rclone_sync_bind(w)
    \/ \E w \in Workers : rclone_sync_eof(w)
    \/ \E w \in Workers : rclone_sync_wait(w)
    \/ \E w \in Workers : rclone_sync_waited(w)
    \/ \E w \in Workers : rclone_sync_clear(w)
    \/ \E p \in Procs : process_exit(p)
    \/ \E w \in Workers : perform_sync_dry_failed(w)
    \/ \E w \in Workers : perform_sync_estimate(w)
    \/ \E w \in Workers : perform_sync_threshold(w)
    \/ \E w \in Workers : perform_sync_set_last_sync_time(w)
    \/ \E w \in Workers : perform_sync_set_first_sync_done(w)
    \/ \E w \in Workers : perform_sync_complete(w)
    \/ \E w \in Workers : perform_sync_finally(w)
    \/ \E mode \in ChosenModes, checked \in Checked : validatePage(mode, checked)
    \/ \E remote \in Remotes :
         wizard_accept(remote, LocalFolder, TRUE, FALSE, config.bandwidth_limit_kbps)

ConfigSpec == ConfigInit /\ [][ConfigNext]_vars

\* C32: within one attempt the dry-run, the size estimate and the real
\* transfer are all given the source, the destination and the filter list that
\* the attempt read from the configuration when it began; the values are read
\* once, a change of the configuration made while the attempt runs leaves the
\* attempt's values and the commands it has issued alone, and the next read
\* (a later attempt's) takes the configuration as it then is.
C32_AttemptUsesOneConfiguration ==
    /\ [](\A w \in Workers : \A i \in 1..Len(cmds[w]) :
            cmds[w][i] \in
                {rclone_sync_cmd(locals[w].source, locals[w].destination, TRUE,
                                 locals[w].filters, 0),
                 estimate_sync_size_cmd(locals[w].source, locals[w].filters),
                 rclone_sync_cmd(locals[w].source, locals[w].destination, FALSE,
                                 locals[w].filters, locals[w].bandwidth_limit)})
    /\ [][/\ \A w \in Workers :
               /\ (locals'[w] # locals[w] /\ locals'[w] # NoLocals) =>
                     /\ pc[w] = "check_first"
                     /\ locals[w] = NoLocals
                     /\ locals'[w].source = config.rclone_remote \o ":"
                     /\ locals'[w].destination = config.local_folder
                     /\ locals'[w].filters = get_sync_filters(config)
               /\ (locals'[w] # locals[w] /\ locals'[w] = NoLocals) =>
                     (pc[w] = "finally" /\ pc'[w] = "idle")
               /\ (Len(cmds'[w]) > Len(cmds[w])) =>
                     (locals'[w] = locals[w] /\ locals[w] # NoLocals)
          /\ (config' # config) => UNCHANGED <<locals, cmds>>]_vars

\* an attempt has issued its three commands and the configuration now names
\* another remote and other filters than the ones the attempt read
C32_Witness ==
    \E w \in Workers :
        /\ Len(cmds[w]) = 3
        /\ cmds[w][1][9] = "--dry-run"
        /\ cmds[w][2][2] = "size"
        /\ cmds[w][3][2] = "sync"
        /\ locals[w].source # config.rclone_remote \o ":"
        /\ locals[w].filters # get_sync_filters(config)
        /\ locals[w].filters # <<>>

\* sync_now in both modes: the engine is configured, syncs are asked for from
\* the main thread with a thread of their own or in blocking mode, the workers
\* and the processes take their steps, and an observer may raise.
BlockInit ==
    /\ Init
    /\ is_configured

BlockNext ==
    \/ ui_sync_now
    \/ ui_sync_now_blocking
    \/ WorkerNext

BlockSpec == BlockInit /\ [][BlockNext]_vars

\* C38: an accepted sync_now returns true.  With a thread of its own the call
\* returns true in the step that starts the thread; in blocking mode the call
\* ends when its _perform_sync ends, and it then returns true whether the
\* transfer succeeded or not, after on_sync_complete has reported the outcome.
C38_ReturnReportsAcceptance ==
    [][/\ (attempts' = attempts + 1 /\ blocking' = blocking) =>
              (ret'.op = "sync_now" /\ ret'.res = "true")
       /\ \A w \in Workers :
            (blocking = w /\ blocking' # w) =>
              /\ ret' = Returns("sync_now", UI, "true")
              /\ Has(w, "complete_ok") \/ Has(w, "complete_fail")]_vars

====
